---- MODULE Spec2Model ----
(***************************************************************************)
(* SQL-to-pipe-syntax transform of SC3020_SQLPipeline:                     *)
(*   main/preprocessing.py  QEP.unwrap and its private passes              *)
(*   main/pipesyntax.py     QueryType, Aggregate, Parser                   *)
(*   main/interface.py      transform_sql                                  *)
(*                                                                         *)
(* Text is a sequence of one-character strings, so that find, rfind,      *)
(* slicing, "in", replace and the regular expressions of the source act   *)
(* on characters as they do in Python.  Positions returned by Find and    *)
(* RFind are Python positions (0-based, -1 for "not found").               *)
(*                                                                         *)
(* A Python value held in a plan node or in a stage is tagged:             *)
(*   [str |-> text]   [list |-> sequence of texts]   [num |-> n]           *)
(*   [none |-> TRUE]                                                       *)
(* A dict is a sequence of <<key, value>> pairs in insertion order.        *)
(***************************************************************************)
EXTENDS Integers, Sequences, FiniteSets, TLC

(***************************************************************************)
(* Bounds of the model                                                     *)
(***************************************************************************)
MaxLen == 4          \* longest text tried on the string helpers
MaxAliases == 2      \* largest alias map tried on the string helpers
MaxNodes == 4        \* largest plan tree tried on the flattener alone
MaxPlanNodes == 3    \* largest plan tree run through the whole transform
MaxStages == 2       \* longest stage sequence normalized twice

(***************************************************************************)
(* Python str / list primitives                                            *)
(***************************************************************************)
Min(a, b) == IF a < b THEN a ELSE b

Max(a, b) == IF a > b THEN a ELSE b

\* s[i:j] with 0 <= i, 0 <= j (Python clamps both to len(s))
Slice(s, i, j) ==
  LET lo == Min(i, Len(s))
      hi == Min(j, Len(s))
  IN  IF hi <= lo THEN << >> ELSE SubSeq(s, lo + 1, hi)

\* s[i:]
SliceFrom(s, i) == Slice(s, i, Len(s))

\* s.find(c) for a one-character c
Find(s, c) ==
  IF \E i \in 1..Len(s) : s[i] = c
  THEN (CHOOSE i \in 1..Len(s) : s[i] = c /\ \A j \in 1..(i - 1) : s[j] # c) - 1
  ELSE -1

\* s.rfind(c, start, end) for a one-character c; a negative end counts from
\* the end of s, as every Python slice bound does
RFind(s, c, start, end) ==
  LET e  == IF end < 0 THEN Max(end + Len(s), 0) ELSE Min(end, Len(s))
      ok == {i \in (start + 1)..e : s[i] = c}
  IN  IF ok = {} THEN -1 ELSE (CHOOSE i \in ok : \A j \in ok : j <= i) - 1

\* s[p:].startswith(sub), p a 1-based position
StartsAt(s, sub, p) ==
  /\ p + Len(sub) - 1 <= Len(s)
  /\ \A k \in 1..Len(sub) : s[p + k - 1] = sub[k]

\* sub in s
IsSubstr(sub, s) == \E p \in 1..(Len(s) + 1) : StartsAt(s, sub, p)

RECURSIVE ReplaceFrom(_, _, _, _)
ReplaceFrom(s, old, new, p) ==
  IF p > Len(s) THEN (IF old = << >> THEN new ELSE << >>)
  ELSE IF old = << >> THEN new \o <<s[p]>> \o ReplaceFrom(s, old, new, p + 1)
  ELSE IF StartsAt(s, old, p) THEN new \o ReplaceFrom(s, old, new, p + Len(old))
  ELSE <<s[p]>> \o ReplaceFrom(s, old, new, p + 1)

\* s.replace(old, new): every non-overlapping occurrence, left to right
Replace(s, old, new) == ReplaceFrom(s, old, new, 1)

UpperCase == <<"A","B","C","D","E","F","G","H","I","J","K","L","M",
               "N","O","P","Q","R","S","T","U","V","W","X","Y","Z">>

LowerCase == <<"a","b","c","d","e","f","g","h","i","j","k","l","m",
               "n","o","p","q","r","s","t","u","v","w","x","y","z">>

LowerChar(c) ==
  IF \E i \in 1..26 : UpperCase[i] = c
  THEN LowerCase[CHOOSE i \in 1..26 : UpperCase[i] = c]
  ELSE c

\* s.lower()
Lower(s) == [i \in 1..Len(s) |-> LowerChar(s[i])]

RECURSIVE JoinWith(_, _)
\* sep.join(list)
JoinWith(sep, list) ==
  IF list = << >> THEN << >>
  ELSE IF Len(list) = 1 THEN list[1]
  ELSE list[1] \o sep \o JoinWith(sep, Tail(list))

(***************************************************************************)
(* dict primitives                                                         *)
(***************************************************************************)
Keys(d) == {d[i][1] : i \in 1..Len(d)}

Has(d, k) == \E i \in 1..Len(d) : d[i][1] = k

None == [none |-> TRUE]

\* d.get(k, None)
Get(d, k) == IF Has(d, k) THEN d[CHOOSE i \in 1..Len(d) : d[i][1] = k][2] ELSE None

\* d.update({k: v}): an existing key keeps its place, a new key goes last
Update(d, k, v) ==
  IF Has(d, k) THEN [i \in 1..Len(d) |-> IF d[i][1] = k THEN <<k, v>> ELSE d[i]]
  ELSE Append(d, <<k, v>>)

RECURSIVE UpdateAll(_, _)
\* d.update(e)
UpdateAll(d, e) ==
  IF e = << >> THEN d ELSE UpdateAll(Update(d, e[1][1], e[1][2]), Tail(e))

\* d.pop(k, None)
Pop(d, k) == SelectSeq(d, LAMBDA kv : kv[1] # k)

\* list.insert(i, x), i a Python index with 0 <= i
InsertAt(list, i, x) ==
  LET p == Min(i, Len(list))
  IN  SubSeq(list, 1, p) \o <<x>> \o SubSeq(list, p + 1, Len(list))

\* list.pop(i), i a Python index with 0 <= i < len(list)
RemoveAt(list, i) == SubSeq(list, 1, i) \o SubSeq(list, i + 2, Len(list))

\* list.reverse()
Reverse(list) == [i \in 1..Len(list) |-> list[Len(list) + 1 - i]]

(***************************************************************************)
(* QEP.__remove_tables_from_variables                                      *)
(***************************************************************************)
\* the first branch without the bracket it cuts at
RemoveTablesDropBracket(variable_string) ==
  LET full_stop_index == Find(variable_string, ".")
      bracket_index   == RFind(variable_string, "(", 0, full_stop_index)
  IN  IF bracket_index < full_stop_index /\ bracket_index # -1
      THEN Slice(variable_string, 0, bracket_index)
             \o SliceFrom(variable_string, full_stop_index + 1)
      ELSE IF bracket_index = -1
      THEN SliceFrom(variable_string, full_stop_index + 1)
      ELSE variable_string

remove_tables_from_variables(variable_string) ==
  LET full_stop_index == Find(variable_string, ".")
      bracket_index   == RFind(variable_string, "(", 0, full_stop_index)
  IN  IF bracket_index < full_stop_index /\ bracket_index # -1
      THEN Slice(variable_string, 0, bracket_index) \o <<"(">>
             \o SliceFrom(variable_string, full_stop_index + 1)
      ELSE IF bracket_index = -1
      THEN SliceFrom(variable_string, full_stop_index + 1)
      ELSE variable_string

(***************************************************************************)
(* QEP.__add_table_alias                                                   *)
(***************************************************************************)
\* longest match in place of first match
LongestMatching(aliases, variable_string, i) ==
  LET found == {j \in i..Len(aliases) : IsSubstr(aliases[j][2], variable_string)}
  IN  IF found = {} THEN 0
      ELSE CHOOSE j \in found :
             \A k \in found : \/ Len(aliases[k][2]) < Len(aliases[j][2])
                              \/ (Len(aliases[k][2]) = Len(aliases[j][2]) /\ j <= k)

RECURSIVE NextMatching(_, _, _)
\* next((items for items in aliases.items() if items[1] in variable_string), None)
\* as the index of the item, 0 for None
NextMatching(aliases, variable_string, i) ==
  IF i > Len(aliases) THEN 0
  ELSE IF IsSubstr(aliases[i][2], variable_string) THEN i
  ELSE NextMatching(aliases, variable_string, i + 1)

add_table_alias(aliases, variable_string) ==
  LET temp_var == NextMatching(aliases, variable_string, 1)
  IN  IF temp_var # 0
      THEN Replace(variable_string, aliases[temp_var][2], aliases[temp_var][1])
      ELSE variable_string

(***************************************************************************)
(* QEP.__convert_operation_and_clean_variables:                            *)
(*   re.sub(r'::[^) ]*[) ]', '', variable_string)                          *)
(***************************************************************************)
CastEnd == {")", " "}

\* position of the first ')' or ' ' at or after p, 0 when there is none
FirstCastEnd(s, p) ==
  LET ends == {i \in p..Len(s) : s[i] \in CastEnd}
  IN  IF ends = {} THEN 0 ELSE CHOOSE i \in ends : \A j \in ends : i <= j

RECURSIVE StripCastsFrom(_, _)
StripCastsFrom(s, p) ==
  IF p > Len(s) THEN << >>
  ELSE IF StartsAt(s, <<":", ":">>, p) /\ FirstCastEnd(s, p + 2) # 0
  THEN StripCastsFrom(s, FirstCastEnd(s, p + 2) + 1)
  ELSE <<s[p]>> \o StripCastsFrom(s, p + 1)

convert_operation_and_clean_variables(variable_string) ==
  StripCastsFrom(variable_string, 1)

(***************************************************************************)
(* pipesyntax.py enumerations.  A member is <<name, value>>; the order is  *)
(* the declaration order, which _missing_ and __contains__ iterate in.     *)
(***************************************************************************)
QueryType ==
  << <<"SELECT",    <<"S","E","L","E","C","T">> >>,
     <<"FROM",      <<"S","C","A","N">> >>,
     <<"WHERE",     <<"W","H","E","R","E">> >>,
     <<"JOIN",      <<"J","O","I","N">> >>,
     <<"ORDER",     <<"S","O","R","T">> >>,
     <<"LIMIT",     <<"L","I","M","I","T">> >>,
     <<"AGGREGATE", <<"A","G","G","R","E","G","A","T","E">> >>,
     <<"WINDOWAGG", <<"W","I","N","D","O","W","A","G","G">> >>,
     <<"UPDATE",    <<"M","O","D","I","F","Y","T","A","B","L","E">> >>,
     <<"SET",       <<"S","E","T">> >> >>

Aggregate ==
  << <<"COUNT",  <<"C","O","U","N","T">> >>,
     <<"SUM",    <<"S","U","M">> >>,
     <<"AVG",    <<"A","V","G">> >>,
     <<"MIN",    <<"M","I","N">> >>,
     <<"MAX",    <<"M","A","X">> >>,
     <<"FIRST",  <<"F","I","R","S","T">> >>,
     <<"LAST",   <<"L","A","S","T">> >>,
     <<"MEDIAN", <<"M","E","D","I","A","N">> >>,
     <<"MODE",   <<"M","O","D","E">> >> >>

\* the result of QueryType(value) when the call raises ValueError
Unclassified == "NONE"

RECURSIVE QueryTypeMissingLast(_, _)
\* the last member found in the label in place of the first
QueryTypeMissingLast(value, i) ==
  IF i > Len(QueryType) THEN Unclassified
  ELSE IF QueryTypeMissingLast(value, i + 1) # Unclassified
  THEN QueryTypeMissingLast(value, i + 1)
  ELSE IF IsSubstr(Lower(QueryType[i][2]), value) THEN QueryType[i][1]
  ELSE Unclassified

RECURSIVE QueryTypeMissingFrom(_, _)
\* QueryType._missing_: the first member whose lower-cased value is found in
\* the lower-cased label
QueryTypeMissingFrom(value, i) ==
  IF i > Len(QueryType) THEN Unclassified
  ELSE IF IsSubstr(Lower(QueryType[i][2]), value) THEN QueryType[i][1]
  ELSE QueryTypeMissingFrom(value, i + 1)

\* QueryType(value): lookup by value, then _missing_
QueryTypeOf(value) ==
  IF \E i \in 1..Len(QueryType) : QueryType[i][2] = value
  THEN QueryType[CHOOSE i \in 1..Len(QueryType) : QueryType[i][2] = value][1]
  ELSE QueryTypeMissingFrom(Lower(value), 1)

\* EnumMeta.__contains__ on Aggregate, for a str item
InAggregate(item) ==
  \E i \in 1..Len(Aggregate) : IsSubstr(Lower(Aggregate[i][2]), item)

(***************************************************************************)
(* Field names of plan nodes and stages are atoms of a closed vocabulary;  *)
(* the two substring tests the source makes on names are tabulated.        *)
(***************************************************************************)
\* QEP._conditions
Conditions ==
  {"Hash Cond", "Merge Cond", "Partial Mode", "Filter", "Relation Name",
   "Index Name", "Index Cond", "Scan Direction", "Join Filter", "Join Type",
   "Actual Total Time"}

\* "Key" in key
HasKeyInName(key) == key \in {"Sort Key", "Group Key"}

\* "Cond" in item
HasCondInName(key) == key \in {"Hash Cond", "Merge Cond", "Index Cond"}

Str(s) == [str |-> s]

List(l) == [list |-> l]

Num(n) == [num |-> n]

(***************************************************************************)
(* QEP.__clean_and_replace_variables                                       *)
(***************************************************************************)
\* the items a Python for-loop draws from a value: the elements of a list,
\* the characters of a str
Iterate(v) ==
  IF "list" \in DOMAIN v THEN v.list
  ELSE IF "str" \in DOMAIN v THEN [i \in 1..Len(v.str) |-> <<v.str[i]>>]
  ELSE << >>

\* lines 310-317 for one variable
CleanVariable(value, aliases) ==
  LET items         == Iterate(value)
      variable_list == [i \in 1..Len(items) |->
                          add_table_alias(aliases, remove_tables_from_variables(items[i]))]
  IN  Str(JoinWith(<<",">>, variable_list))

RECURSIVE CleanVariables(_, _, _)
\* lines 309-317: the loop over the names that contain "Key"
CleanVariables(query_variables, names, aliases) ==
  IF names = << >> THEN query_variables
  ELSE CleanVariables(
         Update(query_variables, names[1],
                CleanVariable(Get(query_variables, names[1]), aliases)),
         Tail(names), aliases)

\* lines 308-320 for one stage
CleanStage(stage, aliases) ==
  LET names  == [i \in 1..Len(SelectSeq(stage.vars, LAMBDA kv : HasKeyInName(kv[1]))) |->
                   SelectSeq(stage.vars, LAMBDA kv : HasKeyInName(kv[1]))[i][1]]
      keyed  == CleanVariables(stage.vars, names, aliases)
      filter == Get(keyed, "Filter")
  IN  [kind |-> stage.kind,
       vars |-> IF filter # None
                THEN Update(keyed, "Filter",
                            Str(convert_operation_and_clean_variables(filter.str)))
                ELSE keyed]

clean_and_replace_variables(list, aliases) ==
  [i \in 1..Len(list) |-> CleanStage(list[i], aliases)]

(***************************************************************************)
(* QEP.__unwrap_QEP: one turn of the while loop on the dequeued plan node  *)
(***************************************************************************)
PartialText == <<"P","a","r","t","i","a","l">>

\* lines 236-247: the stage's attributes
VariableQueries(plans, kind) ==
  LET keys  == UpdateAll(<< >>, SelectSeq(plans.fields, LAMBDA kv : HasKeyInName(kv[1])))
      conds == UpdateAll(keys, SelectSeq(plans.fields, LAMBDA kv : kv[1] \in Conditions))
  IN  IF kind = "LIMIT"
      THEN Update(conds, "Plan Rows", Get(plans.fields, "Plan Rows"))
      ELSE conds

\* every aggregate that names a Partial Mode is skipped
SkipsAnyMode(plans, kind) ==
  kind = "AGGREGATE" /\ Has(plans.fields, "Partial Mode")

\* lines 248-251: the partial aggregate that is skipped
SkipsPartial(plans, kind) ==
  kind = "AGGREGATE" /\ Get(plans.fields, "Partial Mode") = Str(PartialText)

\* lines 232-253: what the turn appends to query_list
StageOf(plans) ==
  LET kind == QueryTypeOf(plans.type)
  IN  IF kind = Unclassified \/ SkipsPartial(plans, kind) THEN << >>
      ELSE << [kind |-> kind, vars |-> VariableQueries(plans, kind)] >>

\* plans["Plans"]: the children of node n, in their order in the plan
Children(tree, n) ==
  SelectSeq([i \in 1..Len(tree.parent) |-> i], LAMBDA i : tree.parent[i] = n)

(***************************************************************************)
(* QEP.__retrieve_alias and QEP.__retrieve_subquery_alias                  *)
(***************************************************************************)
Whitespace == {" ", "\n", "\t"}

RECURSIVE SkipSpace(_, _)
\* the first position at or after p that holds no whitespace
SkipSpace(s, p) ==
  IF p <= Len(s) /\ s[p] \in Whitespace THEN SkipSpace(s, p + 1) ELSE p

RECURSIVE SkipToken(_, _)
\* the first position at or after p that holds whitespace, or Len(s) + 1
SkipToken(s, p) ==
  IF p <= Len(s) /\ s[p] \notin Whitespace THEN SkipToken(s, p + 1) ELSE p

\* s.split()[0]
FirstToken(s) == SubSeq(s, SkipSpace(s, 1), SkipToken(s, SkipSpace(s, 1)) - 1)

\* re.search(r'over\s*\(', s)
SearchOver(s) ==
  \E p \in 1..Len(s) :
    /\ StartsAt(s, <<"o","v","e","r">>, p)
    /\ SkipSpace(s, p + 4) <= Len(s)
    /\ s[SkipSpace(s, p + 4)] = "("

\* dict(zip(a, b))
ZipDict(a, b) ==
  UpdateAll(<< >>, [i \in 1..Min(Len(a), Len(b)) |-> <<a[i], b[i]>>])

RECURSIVE SubqueryAliasFrom(_, _)
SubqueryAliasFrom(subqueries, sub_query_alias) ==
  IF subqueries = << >> THEN sub_query_alias
  ELSE SubqueryAliasFrom(
         Tail(subqueries),
         UpdateAll(sub_query_alias,
                   ZipDict(subqueries[1].alias_column_names,
                           [i \in 1..Len(subqueries[1].selects) |->
                              Lower(subqueries[1].selects[i])])))

retrieve_subquery_alias(parsed_query) ==
  SubqueryAliasFrom(parsed_query.subqueries, << >>)

\* line 279: the key and the value of one selected expression
AliasKey(i) ==
  IF i.alias # << >> THEN Lower(i.alias) ELSE Lower(FirstToken(i.text))

AliasValue(i) ==
  IF SearchOver(Lower(i.text)) THEN Lower(i.text) ELSE Lower(FirstToken(i.text))

\* a merge that drops a top-level entry before adding its subquery pair, so
\* that the key moves behind the entries that are kept
retrieve_alias_reinserting(parsed_query) ==
  LET aliases == UpdateAll(<< >>, [n \in 1..Len(parsed_query.expressions) |->
                                     <<AliasKey(parsed_query.expressions[n]),
                                       AliasValue(parsed_query.expressions[n])>>])
      subquery_alias == retrieve_subquery_alias(parsed_query)
  IN  UpdateAll(SelectSeq(aliases, LAMBDA kv : kv[1] \notin Keys(subquery_alias)),
                subquery_alias)

retrieve_alias(parsed_query) ==
  LET aliases == UpdateAll(<< >>, [n \in 1..Len(parsed_query.expressions) |->
                                     <<AliasKey(parsed_query.expressions[n]),
                                       AliasValue(parsed_query.expressions[n])>>])
  IN  UpdateAll(aliases, retrieve_subquery_alias(parsed_query))

(***************************************************************************)
(* QEP.__inject_queries                                                    *)
(***************************************************************************)
\* lines 409-414: the aliases left after the subquery's pass-through columns
\* (key equal to value among the subquery pairs) are popped
TempAlias(alias, parsed_query) ==
  LET subquery_alias    == retrieve_subquery_alias(parsed_query)
      filtered_subquery == SelectSeq(subquery_alias, LAMBDA kv : kv[1] = kv[2])
      remove_key_list   == Keys(alias) \cap Keys(filtered_subquery)
  IN  SelectSeq(alias, LAMBDA kv : kv[1] \notin remove_key_list)

\* alias_list without alias_list.reverse()
AliasListForward(temp_alias) ==
  SelectSeq(temp_alias, LAMBDA kv : InAggregate(kv[2]))

\* lines 415-416
AliasList(temp_alias) ==
  Reverse(SelectSeq(temp_alias, LAMBDA kv : InAggregate(kv[2])))

\* the keys in place of the values
SelectNames(temp_alias) ==
  LET kept == SelectSeq(temp_alias, LAMBDA kv : ~InAggregate(kv[2]))
  IN  [i \in 1..Len(kept) |-> kept[i][1]]

\* line 418
SelectList(temp_alias) ==
  LET kept == SelectSeq(temp_alias, LAMBDA kv : ~InAggregate(kv[2]))
  IN  [i \in 1..Len(kept) |-> kept[i][2]]

\* line 417, as the positions of the stages in query_list
AggregateList(list) ==
  SelectSeq([i \in 1..Len(list) |-> i], LAMBDA i : list[i].kind = "AGGREGATE")

\* lines 422-426: the Index Name given to the aggregate paired with item
AggregateIndexName(item) ==
  IF item[1] # item[2]
  THEN Str(item[2] \o <<" ","A","S"," ">> \o item[1])
  ELSE Str(item[2])

\* lines 419-426
PairAggregates(list, alias_list) ==
  LET aggregate_list == AggregateList(list)
  IN  [p \in 1..Len(list) |->
         IF \E i \in 1..Len(aggregate_list) : aggregate_list[i] = p /\ i <= Len(alias_list)
         THEN LET i == CHOOSE i \in 1..Len(aggregate_list) : aggregate_list[i] = p
              IN  [kind |-> list[p].kind,
                   vars |-> Update(list[p].vars, "Index Name",
                                   AggregateIndexName(alias_list[i]))]
         ELSE list[p]]

\* the Select stage written over the first stage
InsertSelectOver(list, select_list) ==
  IF select_list # << >>
  THEN <<[kind |-> "SELECT",
          vars |-> << <<"Index Name", Str(JoinWith(<<",">>, select_list))>> >>]>> \o Tail(list)
  ELSE list

\* lines 431-432
InsertSelect(list, select_list) ==
  IF select_list # << >>
  THEN InsertAt(list, 0, [kind |-> "SELECT",
                          vars |-> << <<"Index Name", Str(JoinWith(<<",">>, select_list))>> >>])
  ELSE list

inject_queries(parsed_query, list, alias) ==
  LET temp_alias == TempAlias(alias, parsed_query)
  IN  InsertSelect(PairAggregates(list, AliasList(temp_alias)), SelectList(temp_alias))

(***************************************************************************)
(* QEP.__inject_where_condition                                            *)
(***************************************************************************)
\* lines 472 and 478: the Python indices of the FROM stages that hold key
FromRange(list, key) ==
  LET all == SelectSeq([i \in 1..Len(list) |-> i],
                       LAMBDA i : list[i].kind = "FROM" /\ Get(list[i].vars, key) # None)
  IN  [i \in 1..Len(all) |-> all[i] - 1]

RECURSIVE InsertWhere(_, _, _)
\* lines 473-476 and 479-482: the loop over the indices
InsertWhere(list, indices, key) ==
  IF indices = << >> THEN list
  ELSE LET index           == indices[1]
           where_condition == Get(list[index + 1].vars, key)
       IN  InsertWhere(
             IF where_condition # None
             THEN InsertAt(list, index,
                           [kind |-> "WHERE", vars |-> << <<"Index Name", where_condition>> >>])
             ELSE list,
             Tail(indices), key)

\* the indices taken front to back
ForwardOrder(indices) == indices

\* the order the indices are taken in (reversed(...))
WhereOrder(indices) == Reverse(indices)

inject_where_condition(list) ==
  LET filtered == InsertWhere(list, WhereOrder(FromRange(list, "Filter")), "Filter")
  IN  InsertWhere(filtered, WhereOrder(FromRange(filtered, "Index Cond")), "Index Cond")

(***************************************************************************)
(* QEP.__inject_set_statement                                              *)
(*   re.search(r'\bSET\b\s+(.*?)(?=\bFROM\b|\bWHERE\b|;|$)', query,        *)
(*             re.IGNORECASE | re.DOTALL)                                  *)
(***************************************************************************)
Digits == <<"0","1","2","3","4","5","6","7","8","9">>

\* \w
IsWordChar(c) ==
  \/ \E i \in 1..26 : c = UpperCase[i] \/ c = LowerCase[i]
  \/ \E i \in 1..10 : c = Digits[i]
  \/ c = "_"

\* \b in front of position p (1-based, up to Len(s) + 1)
WordBoundary(s, p) ==
  (p > 1 /\ p - 1 <= Len(s) /\ IsWordChar(s[p - 1])) # (p >= 1 /\ p <= Len(s) /\ IsWordChar(s[p]))

\* \bword\b at position p, ignoring case
WordAt(s, word, p) ==
  /\ StartsAt(Lower(s), Lower(word), p)
  /\ WordBoundary(s, p)
  /\ WordBoundary(s, p + Len(word))

\* \bSET\b\s+ at position p
SetAt(s, p) ==
  /\ WordAt(s, <<"s","e","t">>, p)
  /\ p + 3 <= Len(s)
  /\ s[p + 3] \in Whitespace

\* (?=\bFROM\b|\bWHERE\b|;|$) at position p
SetEndAt(s, p) ==
  \/ WordAt(s, <<"f","r","o","m">>, p)
  \/ WordAt(s, <<"w","h","e","r","e">>, p)
  \/ (p <= Len(s) /\ s[p] = ";")
  \/ p = Len(s) + 1
  \/ (p = Len(s) /\ s[p] = "\n")

\* the match object is None
NoSetMatch(s) == \A p \in 1..Len(s) : ~SetAt(s, p)

\* match.group(1) of the leftmost match
SetGroup(s) ==
  LET p     == CHOOSE p \in 1..Len(s) : SetAt(s, p) /\ \A q \in 1..(p - 1) : ~SetAt(s, q)
      start == SkipSpace(s, p + 3)
      stop  == CHOOSE e \in start..(Len(s) + 1) :
                 SetEndAt(s, e) /\ \A f \in start..(e - 1) : ~SetEndAt(s, f)
  IN  SubSeq(s, start, stop - 1)

\* s.strip()
Strip(s) ==
  LET inked == {i \in 1..Len(s) : s[i] \notin Whitespace}
  IN  IF inked = {} THEN << >>
      ELSE SubSeq(s, CHOOSE i \in inked : \A j \in inked : i <= j,
                     CHOOSE i \in inked : \A j \in inked : j <= i)

RECURSIVE SubWordFrom(_, _, _)
SubWordFrom(s, a, p) ==
  IF p > Len(s) THEN << >>
  ELSE IF WordAt(s, a, p) THEN Lower(a) \o SubWordFrom(s, a, p + Len(a))
  ELSE <<s[p]>> \o SubWordFrom(s, a, p + 1)

\* re.sub(rf'\b{re.escape(a)}\b', a.lower(), s, flags=re.IGNORECASE)
SubWord(s, a) == SubWordFrom(s, a, 1)

RECURSIVE LowerAliases(_, _)
\* lines 497-498
LowerAliases(set_statement, alias) ==
  IF alias = << >> THEN set_statement
  ELSE LowerAliases(SubWord(set_statement, alias[1][1]), Tail(alias))

\* line 489: the Python index of the first UPDATE stage, -1 without one
UpdateIndex(list) ==
  IF \E i \in 1..Len(list) : list[i].kind = "UPDATE"
  THEN (CHOOSE i \in 1..Len(list) :
          list[i].kind = "UPDATE" /\ \A j \in 1..(i - 1) : list[j].kind # "UPDATE") - 1
  ELSE -1

\* line 494 raises AttributeError (None has no group)
SetRaises(query_text, list) == UpdateIndex(list) # -1 /\ NoSetMatch(query_text)

\* the insertion without the removal of the Select stage in front of it
InsertSetKeepSelect(list, update_index, set_statement) ==
  InsertAt(list, update_index,
           [kind |-> "SET", vars |-> << <<"Set Statement", Str(set_statement)>> >>])

\* lines 499-503
InsertSet(list, update_index, set_statement) ==
  LET inserted == InsertAt(list, update_index,
                           [kind |-> "SET", vars |-> << <<"Set Statement", Str(set_statement)>> >>])
  IN  IF update_index - 1 >= 0 /\ inserted[update_index].kind = "SELECT"
      THEN RemoveAt(inserted, update_index - 1)
      ELSE inserted

\* the list when the call returns
inject_set_statement(query_text, list, alias) ==
  IF UpdateIndex(list) = -1 THEN list
  ELSE InsertSet(list, UpdateIndex(list), LowerAliases(Strip(SetGroup(query_text)), alias))

(***************************************************************************)
(* Parser.sanitize_query and Parser.parse_query                            *)
(***************************************************************************)
RECURSIVE NumText(_)
\* str(n) of a number, written here for naturals
NumText(n) == IF n < 10 THEN <<Digits[n + 1]>> ELSE NumText(n \div 10) \o <<Digits[(n % 10) + 1]>>

RECURSIVE ListText(_)
ListText(l) ==
  IF l = << >> THEN << >>
  ELSE <<"'">> \o l[1] \o <<"'">> \o (IF Len(l) > 1 THEN <<",", " ">> ELSE << >>) \o ListText(Tail(l))

\* what an f-string writes for a value
Format(v) ==
  IF "str" \in DOMAIN v THEN v.str
  ELSE IF "num" \in DOMAIN v THEN NumText(v.num)
  ELSE IF "list" \in DOMAIN v THEN <<"[">> \o ListText(v.list) \o <<"]">>
  ELSE <<"N","o","n","e">>

default_syntax == <<"|", ">">>

\* the fields a template subscripts (query_params['...']), which raise
\* KeyError when the stage does not hold them
Subscripted(kind) ==
  CASE kind = "SELECT"    -> {"Index Name"}
    [] kind = "WHERE"     -> {"Index Name"}
    [] kind = "FROM"      -> {"Relation Name", "Actual Total Time"}
    [] kind = "UPDATE"    -> {"Relation Name", "Actual Total Time"}
    [] kind = "JOIN"      -> {"Join Type", "Actual Total Time"}
    [] kind = "ORDER"     -> {"Sort Key", "Actual Total Time"}
    [] kind = "LIMIT"     -> {"Plan Rows", "Actual Total Time"}
    [] kind = "AGGREGATE" -> {"Index Name", "Group Key", "Actual Total Time"}
    [] kind = "WINDOWAGG" -> {"Actual Total Time"}
    [] kind = "SET"       -> {"Set Statement"}

RaisesKeyError(stage) ==
  \E key \in Subscripted(stage.kind) : ~Has(stage.vars, key)

TotalTime(query_params) ==
  <<" ","T","o","t","a","l"," ","T","i","m","e",":"," ">> \o Format(Get(query_params, "Actual Total Time")) \o <<" ", "\n">>

\* line 158: the value of the first field with "Cond" in its name, or None
JoinCondition(query_params) ==
  LET conds == SelectSeq(query_params, LAMBDA kv : HasCondInName(kv[1]))
  IN  IF conds = << >> THEN None ELSE conds[1][2]

\* the text of one stage, when no subscript raises
sanitize_query(stage) ==
  LET query_params == stage.vars
      kind         == stage.kind
  IN  CASE kind = "SELECT" ->
             default_syntax \o <<" ","S","E","L","E","C","T"," ">> \o Format(Get(query_params, "Index Name")) \o <<" ", "\n">>
        [] kind = "WHERE" ->
             default_syntax \o <<" ","W","H","E","R","E"," ">> \o Format(Get(query_params, "Index Name")) \o <<" ", "\n">>
        [] kind = "FROM" ->
             default_syntax \o <<" ","F","R","O","M"," ">> \o Format(Get(query_params, "Relation Name"))
               \o <<" ", "\n">> \o TotalTime(query_params)
        [] kind = "UPDATE" ->
             default_syntax \o <<" ","U","P","D","A","T","E"," ">> \o Format(Get(query_params, "Relation Name"))
               \o <<" ", "\n">> \o TotalTime(query_params)
        [] kind = "JOIN" ->
             default_syntax \o <<" ">> \o Format(Get(query_params, "Join Type"))
               \o <<" ","J","O","I","N"," ","O","N"," ">> \o Format(JoinCondition(query_params))
               \o (IF Get(query_params, "Filter") # None
                   THEN <<" ","A","N","D"," ">> \o Format(Get(query_params, "Filter")) ELSE << >>)
               \o <<"\n">> \o TotalTime(query_params)
        [] kind = "ORDER" ->
             default_syntax \o <<" ","O","R","D","E","R"," ","B","Y"," ">> \o Format(Get(query_params, "Sort Key"))
               \o <<" ", "\n">> \o TotalTime(query_params)
        [] kind = "LIMIT" ->
             default_syntax \o <<" ","L","I","M","I","T"," ">> \o Format(Get(query_params, "Plan Rows"))
               \o <<" ", "\n">> \o TotalTime(query_params)
        [] kind = "AGGREGATE" ->
             default_syntax \o <<" ","A","G","G","R","E","G","A","T","E"," ">> \o Format(Get(query_params, "Index Name"))
               \o <<" ","G","R","O","U","P"," ","B","Y"," ">> \o Format(Get(query_params, "Group Key")) \o <<" ">>
               \o (IF Has(query_params, "Filter")
                   THEN <<"H","A","V","I","N","G"," ">> \o Format(Get(query_params, "Filter")) ELSE << >>)
               \o <<"\n">> \o TotalTime(query_params)
        [] kind = "WINDOWAGG" ->
             default_syntax \o <<" ","W","I","N","D","O","W","A","G","G"," ","\n">> \o TotalTime(query_params)
        [] kind = "SET" ->
             default_syntax \o <<" ","S","E","T"," ">> \o Format(Get(query_params, "Set Statement")) \o <<" ", "\n">>

RECURSIVE Concat(_)
\* lines 107-110: output += o for each o
Concat(order) == IF order = << >> THEN << >> ELSE order[1] \o Concat(Tail(order))

\* order without order.reverse()
RenderUnreversed(list) == [i \in 1..Len(list) |-> sanitize_query(list[i])]

\* lines 104-108: order after order.reverse()
RenderOrder(list) == Reverse([i \in 1..Len(list) |-> sanitize_query(list[i])])

(***************************************************************************)
(* Inputs.  A plan node is [type |-> its "Node Type", fields |-> its other *)
(* fields in the order of the EXPLAIN output]; a plan tree is the nodes    *)
(* and the parent of each (0 for the root, node 1); "Plans" of a node are  *)
(* its children in increasing order.                                       *)
(***************************************************************************)
LimitNode ==
  [type |-> <<"L","i","m","i","t">>,
   fields |-> << <<"Total Cost", Num(9)>>, <<"Plan Rows", Num(100)>>,
                 <<"Actual Total Time", Num(1)>> >>]

SeqScanNode ==
  [type |-> <<"S","e","q"," ","S","c","a","n">>,
   fields |-> << <<"Relation Name", Str(<<"c","u","s","t","o","m","e","r">>)>>, <<"Actual Total Time", Num(2)>> >>]

FilterScanNode ==
  [type |-> <<"S","e","q"," ","S","c","a","n">>,
   fields |-> << <<"Relation Name", Str(<<"t">>)>>, <<"Actual Total Time", Num(3)>>,
                 <<"Filter", Str(<<"(","b"," ","<"," ","2",")">>)>> >>]

IndexScanNode ==
  [type |-> <<"I","n","d","e","x"," ","S","c","a","n">>,
   fields |-> << <<"Scan Direction", Str(<<"F","o","r","w","a","r","d">>)>>, <<"Index Name", Str(<<"p","k">>)>>,
                 <<"Relation Name", Str(<<"o","r","d","e","r","s">>)>>, <<"Actual Total Time", Num(4)>>,
                 <<"Index Cond", Str(<<"(","k"," ","="," ","1",")">>)>>,
                 <<"Filter", Str(<<"(","a"," ",">"," ","'","1","'",":",":","n","u","m","e","r","i","c",")">>)>> >>]

AggregateNode ==
  [type |-> <<"A","g","g","r","e","g","a","t","e">>,
   fields |-> << <<"Strategy", Str(<<"H","a","s","h","e","d">>)>>, <<"Partial Mode", Str(<<"S","i","m","p","l","e">>)>>,
                 <<"Actual Total Time", Num(5)>>,
                 <<"Group Key", List(<< <<"t",".","a">> >>)>> >>]

FinalAggregateNode ==
  [type |-> <<"A","g","g","r","e","g","a","t","e">>,
   fields |-> << <<"Actual Total Time", Num(6)>>,
                 <<"Group Key", List(<< <<"a">>, <<"c","o","u","n","t","(","t",".","b",")">> >>)>>,
                 <<"Filter", Str(<<"(","c","o","u","n","t","(","*",")"," ",">"," ","1",")">>)>> >>]

PartialAggregateNode ==
  [type |-> <<"A","g","g","r","e","g","a","t","e">>,
   fields |-> << <<"Partial Mode", Str(PartialText)>>, <<"Actual Total Time", Num(7)>>,
                 <<"Group Key", List(<< <<"t",".","a">> >>)>> >>]

SortNode ==
  [type |-> <<"S","o","r","t">>,
   fields |-> << <<"Actual Total Time", Num(8)>>,
                 <<"Sort Key", List(<< <<"(","c","o","u","n","t","(","*",")",")"," ","D","E","S","C">>, <<"t",".","a">> >>)>> >>]

HashJoinNode ==
  [type |-> <<"H","a","s","h"," ","J","o","i","n">>,
   fields |-> << <<"Join Type", Str(<<"I","n","n","e","r">>)>>, <<"Actual Total Time", Num(10)>>,
                 <<"Hash Cond", Str(<<"(","o",".","k"," ","="," ","c",".","k",")">>)>> >>]

HashNode ==
  [type |-> <<"H","a","s","h">>, fields |-> << <<"Actual Total Time", Num(11)>> >>]

ModifyTableNode ==
  [type |-> <<"M","o","d","i","f","y","T","a","b","l","e">>,
   fields |-> << <<"Operation", Str(<<"U","p","d","a","t","e">>)>>, <<"Relation Name", Str(<<"t">>)>>,
                 <<"Actual Total Time", Num(12)>> >>]

ScanNodes == {SeqScanNode, FilterScanNode, IndexScanNode}

JoinNodes == {HashJoinNode}

UnaryNodes ==
  {LimitNode, AggregateNode, FinalAggregateNode, PartialAggregateNode, SortNode,
   HashNode, ModifyTableNode}

PlanNodes == ScanNodes \cup JoinNodes \cup UnaryNodes

\* every tree of n nodes over the given nodes: node i > 1 hangs under a
\* node of smaller number
TreesOf(nodes, n) ==
  {[nodes |-> ns, parent |-> [i \in 1..n |-> IF i = 1 THEN 0 ELSE ps[i]]] :
     ns \in [1..n -> nodes], ps \in {f \in [2..n -> 1..n] : \A i \in 2..n : f[i] < i}}

\* the shape of an EXPLAIN plan: scans are the leaves, a join has two
\* inputs, every other node one, and ModifyTable is the root
IsPlan(tree) ==
  \A i \in 1..Len(tree.nodes) :
    /\ tree.nodes[i] \in ScanNodes  => Len(Children(tree, i)) = 0
    /\ tree.nodes[i] \in JoinNodes  => Len(Children(tree, i)) = 2
    /\ tree.nodes[i] \in UnaryNodes => Len(Children(tree, i)) = 1
    /\ tree.nodes[i] = ModifyTableNode => i = 1

Plans ==
  UNION {{tree \in TreesOf(PlanNodes, n) : IsPlan(tree)} : n \in 1..MaxPlanNodes}

(***************************************************************************)
(* A query is its text and what the SQL parser gives for it: whether it    *)
(* validates, str(i) and i.alias of each expression of the statement, and  *)
(* alias_column_names and selects of each subquery.                        *)
(***************************************************************************)
Expr(text, name) == [text |-> text, alias |-> name]

SelectStarQuery ==
  [text |-> <<"S","E","L","E","C","T"," ","*"," ","F","R","O","M"," ","c","u","s","t","o","m","e","r"," ","L","I","M","I","T"," ","1","0","0">>,
   valid |-> TRUE,
   parsed |-> [expressions |-> << Expr(<<"*">>, << >>) >>, subqueries |-> << >>]]

GroupByQuery ==
  [text |-> <<"S","E","L","E","C","T"," ","a"," ","A","S"," ","g",","," ","b",","," ","c","o","u","n","t","(","*",")"," ","A","S"," ","n",","," ","s","u","m","(","b",")"," ","A","S"," ","s"," ","F","R","O","M"," ","t"," ","G","R","O","U","P"," ","B","Y"," ","a",","," ","b">>,
   valid |-> TRUE,
   parsed |-> [expressions |-> << Expr(<<"a"," ","A","S"," ","g">>, <<"g">>), Expr(<<"b">>, << >>),
                                  Expr(<<"C","O","U","N","T","(","*",")"," ","A","S"," ","n">>, <<"n">>), Expr(<<"S","U","M","(","b",")"," ","A","S"," ","s">>, <<"s">>) >>,
               subqueries |-> << >>]]

SubqueryQuery ==
  [text |-> <<"S","E","L","E","C","T"," ","c",","," ","c","o","u","n","t","(","*",")"," ","A","S"," ","d"," ","F","R","O","M"," ","(","S","E","L","E","C","T"," ","k",","," ","c","o","u","n","t","(","o",")"," ","F","R","O","M"," ","t"," ","G","R","O","U","P"," ","B","Y"," ","k",")"," ","A","S"," ","x"," ","(","k",","," ","c",")"," ","G","R","O","U","P"," ","B","Y"," ","c">>,
   valid |-> TRUE,
   parsed |-> [expressions |-> << Expr(<<"c">>, << >>), Expr(<<"C","O","U","N","T","(","*",")"," ","A","S"," ","d">>, <<"d">>) >>,
               subqueries |-> << [alias_column_names |-> << <<"k">>, <<"c">> >>,
                                  selects |-> << <<"k">>, <<"C","O","U","N","T","(","o",")">> >>] >>]]

PassThroughQuery ==
  [text |-> <<"S","E","L","E","C","T"," ","m","a","x","_","p"," ","A","S"," ","m"," ","F","R","O","M"," ","(","S","E","L","E","C","T"," ","m","a","x","_","p"," ","F","R","O","M"," ","t",")"," ","A","S"," ","x"," ","(","m","a","x","_","p",")">>,
   valid |-> TRUE,
   parsed |-> [expressions |-> << Expr(<<"m","a","x","_","p"," ","A","S"," ","m">>, <<"m">>) >>,
               subqueries |-> << [alias_column_names |-> << <<"m","a","x","_","p">> >>,
                                  selects |-> << <<"m","a","x","_","p">> >>] >>]]

WindowQuery ==
  [text |-> <<"S","E","L","E","C","T"," ","a",","," ","r","a","n","k","(",")"," ","O","V","E","R"," ","(","O","R","D","E","R"," ","B","Y"," ","b",")"," ","A","S"," ","r"," ","F","R","O","M"," ","t">>,
   valid |-> TRUE,
   parsed |-> [expressions |-> << Expr(<<"a">>, << >>),
                                  Expr(<<"R","A","N","K","(",")"," ","O","V","E","R"," ","(","O","R","D","E","R"," ","B","Y"," ","b",")"," ","A","S"," ","r">>, <<"r">>) >>,
               subqueries |-> << >>]]

UpdateQuery ==
  [text |-> <<"U","P","D","A","T","E"," ","t"," ","S","E","T"," ","A"," ","="," ","1",","," ","b"," ","="," ","a"," ","W","H","E","R","E"," ","k"," ","="," ","2",";">>,
   valid |-> TRUE,
   parsed |-> [expressions |-> << Expr(<<"A"," ","="," ","1">>, << >>), Expr(<<"b"," ","="," ","a">>, << >>) >>,
               subqueries |-> << >>]]

DeleteQuery ==
  [text |-> <<"D","E","L","E","T","E"," ","F","R","O","M"," ","t"," ","W","H","E","R","E"," ","k"," ","="," ","2">>,
   valid |-> TRUE,
   parsed |-> [expressions |-> << >>, subqueries |-> << >>]]

\* message: the text of the ParseError sqlglot raises for the query
InvalidQuery ==
  [text |-> <<"S","E","L","E","C","T"," ","F","R","O","M"," ","W","H","E","R","E">>,
   valid |-> FALSE,
   parsed |-> [expressions |-> << >>, subqueries |-> << >>],
   message |-> "Expected table name but got WHERE"]

UnclosedQuery ==
  [text |-> <<"S","E","L","E","C","T"," ","(","a"," ","F","R","O","M"," ","t">>,
   valid |-> FALSE,
   parsed |-> [expressions |-> << >>, subqueries |-> << >>],
   message |-> "Expecting )"]

Queries ==
  {SelectStarQuery, GroupByQuery, SubqueryQuery, PassThroughQuery, WindowQuery,
   UpdateQuery, DeleteQuery, InvalidQuery, UnclosedQuery}

(***************************************************************************)
(* State                                                                   *)
(***************************************************************************)
VARIABLES
  pc,              \* the call in progress
  query,           \* the query given to transform_sql
  plan,            \* the plan tree EXPLAIN gives for it
  parsed_query,    \* validate_query's result
  alias,           \* the alias map
  plan_queue,      \* __unwrap_QEP's queue, as node numbers
  query_list,      \* the stage sequence
  order,           \* parse_query's list of texts
  output,          \* the rendered text
  error,           \* the exception that ended the call, "" for none
  flat,            \* history: query_list as __unwrap_QEP returned it
  before,          \* history: query_list as the latest pass received it
  once,            \* history: query_list after its first normalization
  variable_string, \* the text given to a string helper
  temp_values,     \* the text the helper returned
  origin,          \* history: the plan node each stage of flat was made from
  message,         \* the text a parse error that ended the call carries
  db,              \* DBConnection.execute's frame
  elements,        \* qep_to_graph_elements' result
  visited          \* history: the plan nodes __unwrap_QEP took from its queue

vars ==
  <<pc, query, plan, parsed_query, alias, plan_queue, query_list, order, output,
    error, flat, before, once, variable_string, temp_values, origin, message,
    db, elements, visited>>

NoParse == [expressions |-> << >>, subqueries |-> << >>]

\* no call of DBConnection.execute in progress
\* n and outcomes: the times given and what the database does on each
\* attempt; times, error: the locals; attempts, rollbacks: the calls of
\* cur.execute and of rollback so far; rows: the attempt whose rows were
\* returned, 0 for none
NoCall == [n |-> 0, times |-> 0, outcomes |-> << >>, attempts |-> 0,
           rollbacks |-> 0, error |-> "unbound", rows |-> 0]

\* lines 522-523
error_output == "Error in parsing SQL. Please ensure that the query is valid!"

NoPlan == [nodes |-> << >>, parent |-> << >>]

(***************************************************************************)
(* transform_sql: QEP.unwrap, then Parser.parse_query                      *)
(***************************************************************************)
Init ==
  /\ pc = "validate_query"
  /\ query \in Queries
  /\ plan \in Plans
  /\ parsed_query = NoParse
  /\ alias = << >>
  /\ plan_queue = << >>
  /\ query_list = << >>
  /\ order = << >>
  /\ output = << >>
  /\ error = ""
  /\ flat = << >>
  /\ before = << >>
  /\ once = << >>
  /\ variable_string = << >>
  /\ temp_values = << >>
  /\ origin = << >>
  /\ message = ""
  /\ elements = << >>
  /\ visited = << >>
  /\ db = NoCall

\* preprocessing.py line 152 and lines 515-524
ValidateQuery ==
  /\ pc = "validate_query"
  /\ IF query.valid
     THEN /\ parsed_query' = query.parsed
          /\ pc' = "retrieve_alias"
          /\ error' = error
          /\ message' = message
     ELSE /\ parsed_query' = parsed_query
          /\ pc' = "failed"
          /\ error' = "ParseError"
          /\ message' = error_output
  /\ UNCHANGED <<query, plan, alias, plan_queue, query_list, order, output,
                 flat, before, once, variable_string, temp_values, origin, db,
                 elements, visited>>

\* line 153
RetrieveAlias ==
  /\ pc = "retrieve_alias"
  /\ alias' = retrieve_alias(parsed_query)
  /\ pc' = "get_qep"
  /\ UNCHANGED <<query, plan, parsed_query, plan_queue, query_list, order, output,
                 error, flat, before, once, variable_string, temp_values, origin,
                 message, db, elements, visited>>

\* lines 154-157 and 225-228: the plan arrives and its root is queued
GetQep ==
  /\ pc = "get_qep"
  /\ plan_queue' = <<1>>
  /\ query_list' = << >>
  /\ pc' = "unwrap_QEP"
  /\ UNCHANGED <<query, plan, parsed_query, alias, order, output, error, flat,
                 before, once, variable_string, temp_values, origin,
                 message, db, elements, visited>>

\* a stack in place of the queue
PutFront(queue, children) == children \o queue

\* the position a dequeued node's children are put at (queue.Queue is FIFO)
Put(queue, children) == queue \o children

\* a turn that leaves the loop body before the children are queued when the
\* node gives no stage
UnwrapStepDropsSubtree ==
  /\ pc = "unwrap_QEP"
  /\ plan_queue # << >>
  /\ LET n == Head(plan_queue)
     IN  /\ plan_queue' = IF StageOf(plan.nodes[n]) # << >>
                          THEN Put(Tail(plan_queue), Children(plan, n))
                          ELSE Tail(plan_queue)
         /\ query_list' = query_list \o StageOf(plan.nodes[n])
         /\ visited' = Append(visited, n)
         /\ origin' = IF StageOf(plan.nodes[n]) # << >> THEN Append(origin, n) ELSE origin
  /\ UNCHANGED <<pc, query, plan, parsed_query, alias, order, output, error, flat,
                 before, once, variable_string, temp_values, message, db,
                 elements>>

\* lines 229-253: one turn of the loop
UnwrapStep ==
  /\ pc = "unwrap_QEP"
  /\ plan_queue # << >>
  /\ LET n == Head(plan_queue)
     IN  /\ plan_queue' = Put(Tail(plan_queue), Children(plan, n))
         /\ query_list' = query_list \o StageOf(plan.nodes[n])
         /\ visited' = Append(visited, n)
         /\ origin' = IF StageOf(plan.nodes[n]) # << >> THEN Append(origin, n) ELSE origin
  /\ UNCHANGED <<pc, query, plan, parsed_query, alias, order, output, error, flat,
                 before, once, variable_string, temp_values, message, db,
                 elements>>

\* line 254
UnwrapReturn ==
  /\ pc = "unwrap_QEP"
  /\ plan_queue = << >>
  /\ flat' = query_list
  /\ pc' = "clean_and_replace_variables"
  /\ UNCHANGED <<query, plan, parsed_query, alias, plan_queue, query_list, order,
                 output, error, before, once, variable_string, temp_values, origin,
                 message, db, elements, visited>>

\* line 161
CleanAndReplaceVariables ==
  /\ pc = "clean_and_replace_variables"
  /\ before' = query_list
  /\ query_list' = clean_and_replace_variables(query_list, alias)
  /\ once' = query_list'
  /\ pc' = "inject_queries"
  /\ UNCHANGED <<query, plan, parsed_query, alias, plan_queue, order, output, error,
                 flat, variable_string, temp_values, origin, message, db,
                 elements, visited>>

\* line 163
InjectQueries ==
  /\ pc = "inject_queries"
  /\ before' = query_list
  /\ query_list' = inject_queries(parsed_query, query_list, alias)
  /\ pc' = "inject_set_statement"
  /\ UNCHANGED <<query, plan, parsed_query, alias, plan_queue, order, output, error,
                 flat, once, variable_string, temp_values, origin,
                 message, db, elements, visited>>

\* the pass going on to the next one when no SET clause is found
InjectSetStatementSilently ==
  /\ pc = "inject_set_statement"
  /\ before' = query_list
  /\ pc' = "inject_where_condition"
  /\ error' = error
  /\ query_list' = IF SetRaises(query.text, query_list) THEN query_list
                    ELSE inject_set_statement(query.text, query_list, alias)
  /\ UNCHANGED <<query, plan, parsed_query, alias, plan_queue, order, output, flat,
                 once, variable_string, temp_values, origin, message, db,
                 elements, visited>>

\* line 165; an exception leaves unwrap and transform_sql reports it
InjectSetStatement ==
  /\ pc = "inject_set_statement"
  /\ before' = query_list
  /\ IF SetRaises(query.text, query_list)
     THEN /\ pc' = "failed"
          /\ error' = "AttributeError"
          /\ query_list' = query_list
     ELSE /\ pc' = "inject_where_condition"
          /\ error' = error
          /\ query_list' = inject_set_statement(query.text, query_list, alias)
  /\ UNCHANGED <<query, plan, parsed_query, alias, plan_queue, order, output, flat,
                 once, variable_string, temp_values, origin, message, db,
                 elements, visited>>

\* the pass putting every Where stage at the second position of the list,
\* whatever stands there
InjectWhereConditionSecond ==
  /\ pc = "inject_where_condition"
  /\ before' = query_list
  /\ LET indices == FromRange(query_list, "Filter")
         wheres  == [k \in 1..Len(indices) |->
                       [kind |-> "WHERE",
                        vars |-> << <<"Index Name",
                                      Get(query_list[indices[k] + 1].vars, "Filter")>> >>]]
         p       == Min(1, Len(query_list))
     IN  query_list' = SubSeq(query_list, 1, p) \o wheres
                         \o SubSeq(query_list, p + 1, Len(query_list))
  /\ pc' = "parse_query"
  /\ UNCHANGED <<query, plan, parsed_query, alias, plan_queue, order, output, error,
                 flat, once, variable_string, temp_values, origin,
                 message, db, elements, visited>>

\* line 167
InjectWhereCondition ==
  /\ pc = "inject_where_condition"
  /\ before' = query_list
  /\ query_list' = inject_where_condition(query_list)
  /\ pc' = "parse_query"
  /\ UNCHANGED <<query, plan, parsed_query, alias, plan_queue, order, output, error,
                 flat, once, variable_string, temp_values, origin,
                 message, db, elements, visited>>

\* interface.py line 233, pipesyntax.py lines 96-111
ParseQuery ==
  /\ pc = "parse_query"
  /\ IF \E i \in 1..Len(query_list) : RaisesKeyError(query_list[i])
     THEN /\ pc' = "failed"
          /\ error' = "KeyError"
          /\ order' = order
          /\ output' = output
     ELSE /\ pc' = "done"
          /\ error' = error
          /\ order' = RenderOrder(query_list)
          /\ output' = Concat(order')
  /\ UNCHANGED <<query, plan, parsed_query, alias, plan_queue, query_list, flat,
                 before, once, variable_string, temp_values, origin,
                 message, db, elements, visited>>

Next ==
  \/ ValidateQuery
  \/ RetrieveAlias
  \/ GetQep
  \/ UnwrapStep
  \/ UnwrapReturn
  \/ CleanAndReplaceVariables
  \/ InjectQueries
  \/ InjectSetStatement
  \/ InjectWhereCondition
  \/ ParseQuery

Spec == Init /\ [][Next]_vars

(***************************************************************************)
(* The flattener alone, on every plan of up to MaxNodes nodes              *)
(***************************************************************************)
FlattenNodes ==
  {SeqScanNode, HashJoinNode, HashNode, AggregateNode, FinalAggregateNode,
   PartialAggregateNode}

\* the plans of n nodes given to the flattener
FlattenTrees(n) == {tree \in TreesOf(FlattenNodes, n) : IsPlan(tree)}

InitFlatten ==
  /\ pc = "unwrap_QEP"
  /\ query = SelectStarQuery
  /\ \E n \in 1..MaxNodes : plan \in FlattenTrees(n)
  /\ parsed_query = NoParse
  /\ alias = << >>
  /\ plan_queue = <<1>>
  /\ query_list = << >>
  /\ order = << >>
  /\ output = << >>
  /\ error = ""
  /\ flat = << >>
  /\ before = << >>
  /\ once = << >>
  /\ variable_string = << >>
  /\ temp_values = << >>
  /\ origin = << >>
  /\ message = ""
  /\ elements = << >>
  /\ visited = << >>
  /\ db = NoCall

NextFlatten == UnwrapStep \/ UnwrapReturn

SpecFlatten == InitFlatten /\ [][NextFlatten]_vars

(***************************************************************************)
(* The two string helpers of the normalizer, on every text of up to        *)
(* MaxLen characters and every alias map of up to MaxAliases entries       *)
(***************************************************************************)
HelperAlphabet == {"a", "b", ".", "("}

Texts == UNION {[1..n -> HelperAlphabet] : n \in 0..MaxLen}

HelperKeys == {<<"x">>, <<"y">>, <<"z">>}

HelperValues == {<<"a">>, <<"b">>, <<"a", "b">>, <<"(", "a">>}

\* a dict has no key twice
AliasMaps ==
  UNION {{m \in [1..n -> HelperKeys \X HelperValues] :
            \A i, j \in 1..n : m[i][1] = m[j][1] => i = j} : n \in 0..MaxAliases}

InitHelpers ==
  /\ pc = "helper"
  /\ query = SelectStarQuery
  /\ plan = NoPlan
  /\ parsed_query = NoParse
  /\ alias \in AliasMaps
  /\ plan_queue = << >>
  /\ query_list = << >>
  /\ order = << >>
  /\ output = << >>
  /\ error = ""
  /\ flat = << >>
  /\ before = << >>
  /\ once = << >>
  /\ variable_string \in Texts
  /\ temp_values = << >>
  /\ origin = << >>
  /\ message = ""
  /\ elements = << >>
  /\ visited = << >>
  /\ db = NoCall

\* preprocessing.py line 312
RemoveTables ==
  /\ pc = "helper"
  /\ temp_values' = remove_tables_from_variables(variable_string)
  /\ pc' = "removed"
  /\ UNCHANGED <<query, plan, parsed_query, alias, plan_queue, query_list, order,
                 output, error, flat, before, once, variable_string, origin,
                 message, db, elements, visited>>

\* preprocessing.py line 313
AddTableAlias ==
  /\ pc = "helper"
  /\ temp_values' = add_table_alias(alias, variable_string)
  /\ pc' = "aliased"
  /\ UNCHANGED <<query, plan, parsed_query, alias, plan_queue, query_list, order,
                 output, error, flat, before, once, variable_string, origin,
                 message, db, elements, visited>>

NextHelpers == RemoveTables \/ AddTableAlias

SpecHelpers == InitHelpers /\ [][NextHelpers]_vars

(***************************************************************************)
(* The normalizer run twice on a sequence the flattener can produce        *)
(***************************************************************************)
FlatStages == UNION {{StageOf(n)[i] : i \in 1..Len(StageOf(n))} : n \in PlanNodes}

FlatSequences == UNION {[1..n -> FlatStages] : n \in 1..MaxStages}

QueryAliases == {retrieve_alias(q.parsed) : q \in Queries}

InitTwice ==
  /\ pc = "normalize"
  /\ query = SelectStarQuery
  /\ plan = NoPlan
  /\ parsed_query = NoParse
  /\ alias \in QueryAliases
  /\ plan_queue = << >>
  /\ query_list \in FlatSequences
  /\ order = << >>
  /\ output = << >>
  /\ error = ""
  /\ flat = query_list
  /\ before = << >>
  /\ once = << >>
  /\ variable_string = << >>
  /\ temp_values = << >>
  /\ origin = << >>
  /\ message = ""
  /\ elements = << >>
  /\ visited = << >>
  /\ db = NoCall

NormalizeOnce ==
  /\ pc = "normalize"
  /\ query_list' = clean_and_replace_variables(query_list, alias)
  /\ once' = query_list'
  /\ pc' = "normalize_again"
  /\ UNCHANGED <<query, plan, parsed_query, alias, plan_queue, order, output, error,
                 flat, before, variable_string, temp_values, origin,
                 message, db, elements, visited>>

NormalizeAgain ==
  /\ pc = "normalize_again"
  /\ query_list' = clean_and_replace_variables(query_list, alias)
  /\ pc' = "normalized"
  /\ UNCHANGED <<query, plan, parsed_query, alias, plan_queue, order, output, error,
                 flat, before, once, variable_string, temp_values, origin,
                 message, db, elements, visited>>

NextTwice == NormalizeOnce \/ NormalizeAgain

SpecTwice == InitTwice /\ [][NextTwice]_vars

(***************************************************************************)
(* Properties                                                              *)
(***************************************************************************)
\* the plan whose flattening is [Limit, From(customer)]
LimitOverScan == [nodes |-> <<LimitNode, SeqScanNode>>, parent |-> <<0, 1>>]

\* C1: for the query "SELECT * FROM customer LIMIT 100" and a plan that
\* flattens to [Limit{Plan Rows: 100}, From{Relation Name: customer}], the
\* whole transform returns exactly two rendered blocks, the first the
\* FROM customer block and the last the LIMIT 100 block.
EndToEndTwoBlocks ==
  (query = SelectStarQuery /\ plan = LimitOverScan /\ pc \in {"done", "failed"}) =>
    /\ pc = "done"
    /\ Len(order) = 2
    /\ StartsAt(order[1], <<"|",">"," ","F","R","O","M"," ","c","u","s","t","o","m","e","r">>, 1)
    /\ StartsAt(order[Len(order)], <<"|",">"," ","L","I","M","I","T"," ","1","0","0">>, 1)

RECURSIVE Depth(_, _)
Depth(tree, n) == IF tree.parent[n] = 0 THEN 0 ELSE 1 + Depth(tree, tree.parent[n])

RECURSIVE IsAncestor(_, _, _)
\* a is a proper ancestor of n
IsAncestor(tree, a, n) ==
  /\ tree.parent[n] # 0
  /\ (tree.parent[n] = a \/ IsAncestor(tree, a, tree.parent[n]))

\* the nodes that are classified and are no partial aggregate
Retained(tree) ==
  {n \in 1..Len(tree.nodes) :
     /\ QueryTypeOf(tree.nodes[n].type) # Unclassified
     /\ ~(QueryTypeOf(tree.nodes[n].type) = "AGGREGATE"
          /\ Get(tree.nodes[n].fields, "Partial Mode") = Str(PartialText))}

\* C2: the flattener emits the retained (classified, non-partial) nodes in
\* breadth-first level order from the root: each stage comes from a retained
\* node, an ancestor's stage is at a strictly smaller position than its
\* descendant's, the stages of depth k all precede those of depth k+1, and
\* when the flattener returns every retained node has exactly one stage.
LevelOrder ==
  /\ Len(origin) = Len(query_list) \/ pc # "unwrap_QEP"
  /\ \A i \in 1..Len(origin) : origin[i] \in Retained(plan)
  /\ \A i, j \in 1..Len(origin) :
       /\ IsAncestor(plan, origin[i], origin[j]) => i < j
       /\ Depth(plan, origin[i]) < Depth(plan, origin[j]) => i < j
       /\ origin[i] = origin[j] => i = j
  /\ pc = "clean_and_replace_variables" =>
       /\ {origin[i] : i \in 1..Len(origin)} = Retained(plan)
       /\ Len(flat) = Len(origin)
       /\ \A i \in 1..Len(flat) :
            flat[i].kind = QueryTypeOf(plan.nodes[origin[i]].type)

\* a deeper retained node that was numbered first is emitted after a
\* shallower one of another branch
LevelOrderReached ==
  /\ pc = "clean_and_replace_variables"
  /\ Cardinality(Retained(plan)) < Len(plan.nodes)
  /\ \E i, j \in 1..Len(origin) :
       /\ i < j
       /\ origin[i] > origin[j]
       /\ Depth(plan, origin[i]) < Depth(plan, origin[j])

AggregateNodesOf(tree) ==
  {n \in 1..Len(tree.nodes) : QueryTypeOf(tree.nodes[n].type) = "AGGREGATE"}

IsPartial(node) == Get(node.fields, "Partial Mode") = Str(PartialText)

\* C3: the flattened sequence holds no stage made from an Aggregate node
\* whose Partial Mode is "Partial", and exactly one Aggregate stage for every
\* Aggregate node whose Partial Mode is absent or different from "Partial".
PartialSuppressed ==
  /\ \A i \in 1..Len(origin) :
       ~(origin[i] \in AggregateNodesOf(plan) /\ IsPartial(plan.nodes[origin[i]]))
  /\ pc = "clean_and_replace_variables" =>
       /\ \A n \in AggregateNodesOf(plan) :
            ~IsPartial(plan.nodes[n]) =>
              /\ Cardinality({i \in 1..Len(origin) : origin[i] = n}) = 1
              /\ \A i \in 1..Len(origin) : origin[i] = n => flat[i].kind = "AGGREGATE"
       /\ Cardinality({i \in 1..Len(flat) : flat[i].kind = "AGGREGATE"})
            = Cardinality({n \in AggregateNodesOf(plan) : ~IsPartial(plan.nodes[n])})

\* a tree with a partial aggregate, an aggregate without Partial Mode and
\* one whose Partial Mode is not "Partial" has been flattened
PartialSuppressedReached ==
  /\ pc = "clean_and_replace_variables"
  /\ \E a, b, c \in AggregateNodesOf(plan) :
       /\ IsPartial(plan.nodes[a])
       /\ ~Has(plan.nodes[b].fields, "Partial Mode")
       /\ Has(plan.nodes[c].fields, "Partial Mode") /\ ~IsPartial(plan.nodes[c])
  /\ Cardinality({i \in 1..Len(flat) : flat[i].kind = "AGGREGATE"}) = 2

\* C4: normalization is idempotent: applying the normalizer twice to a
\* sequence the flattener produced gives the same attribute values as
\* applying it once.
NormalizeIdempotent == pc = "normalized" => query_list = once

\* the Where stages the claim gives a stage: one for its Filter, one for
\* its Index Cond
WheresOf(stage) ==
  IF stage.kind # "FROM" THEN << >>
  ELSE (IF Get(stage.vars, "Filter") # None
        THEN << [kind |-> "WHERE", vars |-> << <<"Index Name", Get(stage.vars, "Filter")>> >>] >>
        ELSE << >>)
       \o
       (IF Get(stage.vars, "Index Cond") # None
        THEN << [kind |-> "WHERE", vars |-> << <<"Index Name", Get(stage.vars, "Index Cond")>> >>] >>
        ELSE << >>)

RECURSIVE WithWheres(_)
WithWheres(list) ==
  IF list = << >> THEN << >>
  ELSE WheresOf(list[1]) \o <<list[1]>> \o WithWheres(Tail(list))

RenderReversesOnce ==
  /\ [](pc = "done" =>
          /\ Len(order) = Len(query_list)
          /\ \A i \in 1..Len(order) :
               order[i] = sanitize_query(query_list[Len(query_list) + 1 - i])
          /\ output = Concat(order))
  /\ [][pc = "parse_query" => query_list' = query_list]_vars

\* a sequence of at least three stages of different kinds has been rendered
RenderReversesOnceReached ==
  /\ pc = "done"
  /\ Len(query_list) >= 3
  /\ query_list[1].kind # query_list[Len(query_list)].kind
  /\ order[1] # order[Len(order)]

\* the three-case rule of the table-prefix stripping
StrippedByRule(s) ==
  LET dots == {i \in 1..Len(s) : s[i] = "."}
  IN  IF dots = {} THEN s
      ELSE LET d        == CHOOSE i \in dots : \A j \in dots : i <= j
               brackets == {i \in 1..(d - 1) : s[i] = "("}
           IN  IF brackets # {}
               THEN LET b == CHOOSE i \in brackets : \A j \in brackets : j <= i
                    IN  SubSeq(s, 1, b) \o SubSeq(s, d + 1, Len(s))
               ELSE SubSeq(s, d + 1, Len(s))

\* C7: table-prefix stripping follows the three-case rule on every text:
\* with d the first '.', b the last '(' before d, the result is the text up
\* to and including b followed by the text after d when b exists, the text
\* unchanged when it has no '.', and the text after d otherwise; a text
\* without '.' is unchanged even when it holds a '('.
StripFollowsRule ==
  pc = "removed" =>
    /\ temp_values = StrippedByRule(variable_string)
    /\ Find(variable_string, ".") = -1 => temp_values = variable_string

\* a text with a '(' and no '.' has been stripped
StripFollowsRuleReached ==
  /\ pc = "removed"
  /\ Find(variable_string, ".") = -1
  /\ Find(variable_string, "(") \in 0..(Len(variable_string) - 2)
  /\ temp_values = variable_string

\* the aliases whose expression occurs in the text
Matching(aliases, s) == {i \in 1..Len(aliases) : IsSubstr(aliases[i][2], s)}

\* C8: alias substitution is first-found: when some alias expression occurs
\* in the token, the result is the token with the expression of the first
\* such alias, in insertion order, replaced by that alias's key, whatever
\* later aliases match; when none occurs the token is returned unchanged.
FirstFound ==
  pc = "aliased" =>
    IF Matching(alias, variable_string) = {}
    THEN temp_values = variable_string
    ELSE LET first == CHOOSE i \in Matching(alias, variable_string) :
                        \A j \in Matching(alias, variable_string) : i <= j
         IN  temp_values = Replace(variable_string, alias[first][2], alias[first][1])

\* a token in which a later, longer alias expression occurs as well has
\* been given the first alias
FirstFoundReached ==
  /\ pc = "aliased"
  /\ \E i, j \in Matching(alias, variable_string) :
       /\ i < j
       /\ Len(alias[j][2]) > Len(alias[i][2])
       /\ \A k \in Matching(alias, variable_string) : i <= k
       /\ temp_values = Replace(variable_string, alias[i][2], alias[i][1])
       /\ temp_values # Replace(variable_string, alias[j][2], alias[j][1])

\* the subquery pass-through aliases: key equal to value among the subquery
\* alias pairs
PassThrough(parsed) ==
  LET pairs == retrieve_subquery_alias(parsed)
  IN  {pairs[i][1] : i \in {j \in 1..Len(pairs) : pairs[j][1] = pairs[j][2]}}

\* the alias entries that are neither aggregate-kind nor pass-through
Projected(aliases, parsed) ==
  SelectSeq(aliases, LAMBDA kv : ~InAggregate(kv[2]) /\ kv[1] \notin PassThrough(parsed))

\* the stages the pass received, as they stand after it
Received(list, old) == SubSeq(list, Len(list) - Len(old) + 1, Len(list))

SelectStage(names) ==
  [kind |-> "SELECT", vars |-> << <<"Index Name", Str(JoinWith(<<",">>, names))>> >>]

Paired(aliases, parsed) ==
  Reverse(SelectSeq(aliases,
                    LAMBDA kv : InAggregate(kv[2]) /\ kv[1] \notin PassThrough(parsed)))

\* "<expression> AS <alias>", or the expression alone
AsText(kv) == IF kv[1] = kv[2] THEN kv[2] ELSE kv[2] \o <<" ","A","S"," ">> \o kv[1]

FirstUpdate(list) ==
  IF \E i \in 1..Len(list) : list[i].kind = "UPDATE"
  THEN CHOOSE i \in 1..Len(list) :
         list[i].kind = "UPDATE" /\ \A j \in 1..(i - 1) : list[j].kind # "UPDATE"
  ELSE 0

\* a FROM or WHERE keyword, a ';' or the end of the text at position e
ClauseEnd(text, e) ==
  \/ e = Len(text) + 1
  \/ (e <= Len(text) /\ text[e] = ";")
  \/ Lower(Slice(text, e - 1, e + 4)) = <<"w","h","e","r","e">>
  \/ Lower(Slice(text, e - 1, e + 3)) = <<"f","r","o","m">>

\* <<p, e>>: a SET keyword at p with a blank behind it, and the next FROM,
\* WHERE, ';' or end at e
SetClauses(text) ==
  {pe \in (1..Len(text)) \X (1..(Len(text) + 1)) :
     /\ Lower(Slice(text, pe[1] - 1, pe[1] + 2)) = <<"s","e","t">>
     /\ pe[1] + 3 < pe[2]
     /\ text[pe[1] + 3] \in Whitespace
     /\ ClauseEnd(text, pe[2])
     /\ \A f \in (pe[1] + 4)..(pe[2] - 1) : ~ClauseEnd(text, f)}

\* the text between the SET keyword and the next FROM, WHERE, ';' or end,
\* without the blanks around it
ExtractedSet(text) ==
  LET pe == CHOOSE x \in SetClauses(text) : \A y \in SetClauses(text) : x[1] <= y[1]
  IN  Strip(Slice(text, pe[1] + 3, pe[2] - 1))

\* the positions of s that lie in a whole word equal, up to letter case, to
\* the name of an alias
InAliasWord(s, aliases) ==
  {i \in 1..Len(s) :
     \E k \in 1..Len(aliases) : \E p \in 1..i :
       /\ i < p + Len(aliases[k][1])
       /\ Lower(Slice(s, p - 1, p - 1 + Len(aliases[k][1]))) = Lower(aliases[k][1])
       /\ (p = 1 \/ ~IsWordChar(s[p - 1]))
       /\ (p + Len(aliases[k][1]) > Len(s) \/ ~IsWordChar(s[p + Len(aliases[k][1])]))}

\* s with every token that matches an alias name in lower case
AliasTokensLowered(s, aliases) ==
  [i \in 1..Len(s) |-> IF i \in InAliasWord(s, aliases) THEN LowerChar(s[i]) ELSE s[i]]

\* the placement the SET pass is to make, for the text the Set stage is to
\* hold
SetPlaced(held) ==
  LET u == FirstUpdate(before)
  IN  IF u = 0 THEN query_list = before
      ELSE LET kept == IF u > 1 /\ before[u - 1].kind = "SELECT"
                       THEN SubSeq(before, 1, u - 2)
                       ELSE SubSeq(before, 1, u - 1)
           IN  query_list =
                 kept \o << [kind |-> "SET", vars |-> << <<"Set Statement", Str(held)>> >>] >>
                      \o SubSeq(before, u, Len(before))

\* an Update node at the root of the plan leaves no Select stage
NoSelectOverUpdate ==
  (pc \in {"inject_where_condition", "parse_query", "done"}
     /\ QueryTypeOf(plan.nodes[1].type) = "UPDATE") =>
    \A i \in 1..Len(query_list) : query_list[i].kind # "SELECT"

\* C11 as stated: when the sequence holds an Update stage and the query a SET
\* clause, after the SET pass a Set stage holding the extracted text sits
\* immediately before the first Update stage, a Select stage that was
\* immediately before the insertion point is gone and every other stage is
\* as it was, so that a plan whose root is the Update node ends with no
\* Select stage; without an Update stage the pass changes nothing.
SetHoldsExtractedText ==
  /\ pc = "inject_where_condition" => SetPlaced(ExtractedSet(query.text))
  /\ NoSelectOverUpdate

\* C11 as amended: the Set stage holds the extracted text with every token
\* that matches an alias name, up to letter case, written in lower case; the
\* placement, the removal of the Select stage and the case without an Update
\* stage are as stated.
SetInjected ==
  /\ pc = "inject_where_condition" =>
       SetPlaced(AliasTokensLowered(ExtractedSet(query.text), alias))
  /\ NoSelectOverUpdate

\* the Select stage made for an UPDATE query has been replaced by the Set
\* stage in front of the Update stage at the root of the plan, and an alias
\* token of the SET clause went to lower case
SetInjectedReached ==
  /\ pc = "inject_where_condition"
  /\ Len(before) >= 3
  /\ before[1].kind = "SELECT" /\ before[2].kind = "UPDATE"
  /\ query_list[1].kind = "SET" /\ query_list[2].kind = "UPDATE"
  /\ Len(query_list) = Len(before)
  /\ Get(query_list[1].vars, "Set Statement") = Str(<<"a"," ","="," ","1",","," ","b"," ","="," ","a">>)
  /\ ExtractedSet(query.text) = <<"A"," ","="," ","1",","," ","b"," ","="," ","a">>

\* the text holds the word SET, in any letter case, with a blank behind it
HasSetKeyword(text) ==
  \E p \in 1..Len(text) :
    /\ Lower(Slice(text, p - 1, p + 2)) = <<"s","e","t">>
    /\ p + 3 <= Len(text)
    /\ text[p + 3] \in Whitespace
    /\ (p = 1 \/ ~IsWordChar(text[p - 1]))

\* C12: when the sequence holds an Update stage and the query text no SET
\* keyword followed by a blank, the SET pass ends with an error instead of
\* going on, inserts no Set stage, and the transform ends there: no later
\* pass runs and the caller gets neither a stage sequence nor a rendering.
SetFailureFatal ==
  /\ [][(pc = "inject_set_statement" /\ FirstUpdate(query_list) # 0
           /\ ~HasSetKeyword(query.text)) =>
          (pc' = "failed" /\ error' # "" /\ query_list' = query_list)]_vars
  /\ [](pc = "failed" => (error # "" /\ order = << >> /\ output = << >>))
  /\ []((pc = "failed" /\ error = "AttributeError") =>
          \A i \in 1..Len(query_list) : query_list[i].kind # "SET")
  /\ [][pc = "failed" => pc' = "failed"]_vars

\* an Update stage met a query without SET clause and the transform failed
SetFailureFatalReached ==
  /\ pc = "failed"
  /\ error = "AttributeError"
  /\ query.valid
  /\ FirstUpdate(query_list) # 0
  /\ ~HasSetKeyword(query.text)
  /\ output = << >>

(***************************************************************************)
(* The renderer alone, on sequences in which a stage has lost a field or   *)
(* holds None in it                                                        *)
(***************************************************************************)
\* one stage of each kind, as the flattener and the injector make them
RenderComplete ==
  {StageOf(LimitNode)[1], StageOf(SeqScanNode)[1], StageOf(HashJoinNode)[1],
   StageOf(SortNode)[1], StageOf(ModifyTableNode)[1],
   [kind |-> "AGGREGATE",
    vars |-> Update(StageOf(AggregateNode)[1].vars, "Index Name",
                    Str(<<"c","o","u","n","t","(","*",")"," ","A","S"," ","n">>))],
   [kind |-> "WINDOWAGG", vars |-> << <<"Actual Total Time", Num(13)>> >>],
   [kind |-> "SELECT", vars |-> << <<"Index Name", Str(<<"a">>)>> >>],
   [kind |-> "WHERE", vars |-> << <<"Index Name", Str(<<"(","b"," ","<"," ","2",")">>)>> >>],
   [kind |-> "SET", vars |-> << <<"Set Statement", Str(<<"a"," ","="," ","1">>)>> >>]}

\* the stage without the field
Without(stage, key) == [kind |-> stage.kind, vars |-> Pop(stage.vars, key)]

\* the stage with None in the field
Nulled(stage, key) == [kind |-> stage.kind, vars |-> Update(stage.vars, key, None)]

RenderStages ==
  RenderComplete
    \cup UNION {{Without(s, k) : k \in Keys(s.vars)} : s \in RenderComplete}
    \cup UNION {{Nulled(s, k) : k \in Keys(s.vars)} : s \in RenderComplete}

\* the stage alone, and in front of or behind a complete stage
RenderSequences ==
  {<<s>> : s \in RenderStages}
    \cup {<<c, s>> : c \in {StageOf(LimitNode)[1], StageOf(SeqScanNode)[1]}, s \in RenderStages}
    \cup {<<s, c>> : c \in {StageOf(LimitNode)[1], StageOf(SeqScanNode)[1]}, s \in RenderStages}

InitRender ==
  /\ pc = "parse_query"
  /\ query = SelectStarQuery
  /\ plan = NoPlan
  /\ parsed_query = NoParse
  /\ alias = << >>
  /\ plan_queue = << >>
  /\ query_list \in RenderSequences
  /\ order = << >>
  /\ output = << >>
  /\ error = ""
  /\ flat = << >>
  /\ before = << >>
  /\ once = << >>
  /\ variable_string = << >>
  /\ temp_values = << >>
  /\ origin = << >>
  /\ message = ""
  /\ elements = << >>
  /\ visited = << >>
  /\ db = NoCall

NextRender == ParseQuery

SpecRender == InitRender /\ [][NextRender]_vars

\* the fields the template of a stage kind requires
Required(kind) ==
  CASE kind \in {"SELECT", "WHERE"} -> {"Index Name"}
    [] kind \in {"FROM", "UPDATE"}  -> {"Relation Name", "Actual Total Time"}
    [] kind = "JOIN"                -> {"Join Type", "Actual Total Time"}
    [] kind = "ORDER"               -> {"Sort Key"}
    [] kind = "LIMIT"               -> {"Plan Rows"}
    [] kind = "AGGREGATE"           -> {"Index Name", "Group Key"}
    [] kind = "SET"                 -> {"Set Statement"}
    [] OTHER                        -> {}

\* a required field of the stage is absent or null; for a Join, so is every
\* field with Cond in its name
LacksRequired(stage) ==
  \/ \E key \in Required(stage.kind) : Get(stage.vars, key) = None
  \/ /\ stage.kind = "JOIN"
     /\ \A key \in {"Hash Cond", "Merge Cond", "Index Cond"} : Get(stage.vars, key) = None

\* C13: rendering a stage that lacks a field its template requires, the
\* field being absent or null, is an error: the render call fails and gives
\* no text, so no rendered text holds a placeholder such as "None".
RenderNeverBlank ==
  /\ (pc \in {"done", "failed"} /\ \E i \in 1..Len(query_list) : LacksRequired(query_list[i])) =>
       (pc = "failed" /\ error # "" /\ output = << >>)
  /\ pc = "done" => ~IsSubstr(<<"N","o","n","e">>, output)

(***************************************************************************)
(* The whole transform on plans of nested joins                            *)
(***************************************************************************)
MaxJoinNodes == 5    \* largest plan of joins run through the transform

JoinPlanNodes == {HashJoinNode, SeqScanNode, FilterScanNode, SortNode}

\* the plans of n nodes over joins, scans and sorts
JoinPlans(n) == {tree \in TreesOf(JoinPlanNodes, n) : IsPlan(tree)}

InitJoins ==
  /\ pc = "validate_query"
  /\ query = SelectStarQuery
  /\ \E n \in 1..MaxJoinNodes : plan \in JoinPlans(n)
  /\ parsed_query = NoParse
  /\ alias = << >>
  /\ plan_queue = << >>
  /\ query_list = << >>
  /\ order = << >>
  /\ output = << >>
  /\ error = ""
  /\ flat = << >>
  /\ before = << >>
  /\ once = << >>
  /\ variable_string = << >>
  /\ temp_values = << >>
  /\ origin = << >>
  /\ message = ""
  /\ elements = << >>
  /\ visited = << >>
  /\ db = NoCall

SpecJoins == InitJoins /\ [][Next]_vars

\* the positions of the stages the flattener made, in a sequence the
\* injector has added Select, Where and Set stages to
FlattenerMade(list) ==
  SelectSeq([i \in 1..Len(list) |-> i],
            LAMBDA i : list[i].kind \notin {"SELECT", "WHERE", "SET"})

\* the children of node n that have a stage
RetainedChildren(tree, n) ==
  {c \in Retained(tree) : tree.parent[c] = n}

\* C14: in the sequence the flattener produced and the injector kept, every
\* Join stage is immediately followed by the stages of the children of the
\* plan node it joins: they are the next stages the flattener made, and only
\* Where stages stand between the Join stage and the last of them.
JoinAdjacent ==
  pc = "parse_query" =>
    LET made == FlattenerMade(query_list)
    IN  /\ Len(made) = Len(origin)
        /\ \A k \in 1..Len(origin) :
             query_list[made[k]].kind = "JOIN" =>
               LET kids == RetainedChildren(plan, origin[k])
                   m    == Cardinality(kids)
               IN  /\ k + m <= Len(origin)
                   /\ {origin[k + c] : c \in 1..m} = kids
                   /\ \A p \in (made[k] + 1)..(made[k + m] - 1) :
                        query_list[p].kind = "WHERE" \/ origin[CHOOSE j \in 1..Len(made) : made[j] = p] \in kids

\* a stage without the Index Name the SELECT pass gives an Aggregate stage
Core(stage) ==
  IF stage.kind = "AGGREGATE"
  THEN [kind |-> stage.kind, vars |-> Pop(stage.vars, "Index Name")]
  ELSE stage

RECURSIVE IsSubsequence(_, _)
\* the stages of a occur in b, in the order of a
IsSubsequence(a, b) ==
  IF a = << >> THEN TRUE
  ELSE IF b = << >> THEN FALSE
  ELSE IF Core(a[1]) = Core(b[1]) THEN IsSubsequence(Tail(a), Tail(b))
  ELSE IsSubsequence(a, Tail(b))

\* a step that leaves every stage but Select stages in the sequence
RemovesSelectOnly ==
  LET others == SelectSeq(query_list, LAMBDA stage : stage.kind # "SELECT")
  IN  IsSubsequence(others, query_list')

\* C15: the injector neither reorders nor removes the flattener's stages:
\* after the three passes, the final sequence without its Select, Where and
\* Set stages is the flattener's sequence, stage for stage and in its order
\* (as normalized, an Aggregate stage with its new Index Name), and a pass
\* removes no stage but a Select stage.
InjectorKeepsStages ==
  /\ [](pc = "parse_query" =>
          LET made == FlattenerMade(query_list)
          IN  /\ Len(made) = Len(flat)
              /\ \A k \in 1..Len(made) :
                   /\ query_list[made[k]].kind = flat[k].kind
                   /\ Core(query_list[made[k]]) = Core(once[k]))
  /\ [][(pc \in {"inject_queries", "inject_set_statement", "inject_where_condition"}) =>
          RemovesSelectOnly]_vars

\* Select and Where stages have been put among three or more stages of the
\* flattener, one of them an Aggregate stage that got its Index Name
InjectorKeepsStagesReached ==
  /\ pc = "parse_query"
  /\ Len(flat) >= 3
  /\ query_list[1].kind = "SELECT"
  /\ \E i \in 1..Len(query_list) : query_list[i].kind = "WHERE"
  /\ \E i \in 1..Len(query_list) :
       query_list[i].kind = "AGGREGATE" /\ Has(query_list[i].vars, "Index Name")
  /\ Len(query_list) >= Len(flat) + 2

(***************************************************************************)
(* The flattener alone, on trees of nodes of every kind of label           *)
(***************************************************************************)
MaxLabelNodes == 2   \* largest tree of labelled nodes given to the flattener

\* "Node Type" labels: one per stage kind that EXPLAIN names, labels that no
\* kind matches, a label equal to a member's value, and one that holds the
\* tags of two kinds
Labels ==
  {<<"S","e","q"," ","S","c","a","n">>,
   <<"H","a","s","h"," ","J","o","i","n">>,
   <<"S","o","r","t">>,
   <<"L","i","m","i","t">>,
   <<"A","g","g","r","e","g","a","t","e">>,
   <<"W","i","n","d","o","w","A","g","g">>,
   <<"M","o","d","i","f","y","T","a","b","l","e">>,
   <<"S","e","t","O","p">>,
   <<"H","a","s","h">>,
   <<"N","e","s","t","e","d"," ","L","o","o","p">>,
   <<"S","C","A","N">>,
   <<"L","I","M","I","T"," ","s","o","r","t">>}

\* a plan node that has the label
LabelNode(label) == [type |-> label, fields |-> << <<"Actual Total Time", Num(1)>> >>]

LabelTrees(n) == TreesOf({LabelNode(label) : label \in Labels}, n)

InitClassify ==
  /\ pc = "unwrap_QEP"
  /\ query = SelectStarQuery
  /\ \E n \in 1..MaxLabelNodes : plan \in LabelTrees(n)
  /\ parsed_query = NoParse
  /\ alias = << >>
  /\ plan_queue = <<1>>
  /\ query_list = << >>
  /\ order = << >>
  /\ output = << >>
  /\ error = ""
  /\ flat = << >>
  /\ before = << >>
  /\ once = << >>
  /\ variable_string = << >>
  /\ temp_values = << >>
  /\ origin = << >>
  /\ message = ""
  /\ elements = << >>
  /\ visited = << >>
  /\ db = NoCall

\* lines 229-230 and 250-254: what a turn of the loop does to the queue and
\* to the position of the call; every turn changes one of the two
UnwrapTurn ==
  /\ pc = "unwrap_QEP"
  /\ IF plan_queue # << >>
     THEN /\ plan_queue' = Put(Tail(plan_queue), Children(plan, Head(plan_queue)))
          /\ pc' = pc
     ELSE /\ plan_queue' = plan_queue
          /\ pc' = "clean_and_replace_variables"

\* the while loop of __unwrap_QEP takes its next turn whenever it can
SpecClassify ==
  InitClassify /\ [][NextFlatten]_vars /\ WF_<<pc, plan_queue>>(UnwrapTurn)

\* the first kind, in enumeration order, whose tag occurs in the label
\* whatever the letter case; unclassified without one
FirstTagged(label) ==
  LET hits == {i \in 1..Len(QueryType) : IsSubstr(Lower(QueryType[i][2]), Lower(label))}
  IN  IF hits = {} THEN Unclassified
      ELSE QueryType[CHOOSE i \in hits : \A j \in hits : i <= j][1]

\* C16: a classification miss is never fatal: for every tree and every
\* label the flattener ends without error; a node's kind is the first kind
\* in enumeration order whose tag occurs in its label whatever the letter
\* case; a node no kind matches gives no stage, every other node one stage
\* of its kind, and a tree of unclassified nodes gives the empty sequence.
MissesNotFatal ==
  /\ [](error = "" /\ pc \in {"unwrap_QEP", "clean_and_replace_variables"})
  /\ <>(pc = "clean_and_replace_variables")
  /\ [](\A i \in 1..Len(origin) :
          /\ FirstTagged(plan.nodes[origin[i]].type) # Unclassified
          /\ Len(query_list) >= i => query_list[i].kind = FirstTagged(plan.nodes[origin[i]].type))
  /\ [](pc = "clean_and_replace_variables" =>
          /\ Len(flat) = Cardinality({n \in 1..Len(plan.nodes) :
                                        FirstTagged(plan.nodes[n].type) # Unclassified})
          /\ Len(origin) = Len(flat)
          /\ (\A n \in 1..Len(plan.nodes) : FirstTagged(plan.nodes[n].type) = Unclassified)
               => flat = << >>)

\* a tree of an unclassified node and a node whose label holds two tags has
\* been flattened to the one stage of the kind that is first in the
\* enumeration, not first in the label
MissesNotFatalReached ==
  /\ pc = "clean_and_replace_variables"
  /\ Len(plan.nodes) = 2
  /\ plan.nodes[1].type = <<"H","a","s","h">>
  /\ plan.nodes[2].type = <<"L","I","M","I","T"," ","s","o","r","t">>
  /\ Len(flat) = 1
  /\ flat[1].kind = "ORDER"

(***************************************************************************)
(* The alias resolver alone, on parsed queries of up to MaxExprs selected  *)
(* expressions with and without a subquery                                 *)
(***************************************************************************)
MaxExprs == 2        \* most selected expressions of a parsed query

\* selected expressions: plain, aliased, aggregate, window with and without
\* alias, and a column a subquery renames
ExprPool ==
  {Expr(<<"a">>, <<>>),
   Expr(<<"t",".","B"," ","A","S"," ","G">>, <<"G">>),
   Expr(<<"C","O","U","N","T","(","*",")"," ","A","S"," ","n">>, <<"n">>),
   Expr(<<"R","A","N","K","(",")"," ","O","V","E","R"," ","(","O","R","D","E","R"," ","B","Y"," ","b",")"," ","A","S"," ","r">>, <<"r">>),
   Expr(<<"S","U","M","(","b",")"," ","O","V","E","R","(","P","A","R","T","I","T","I","O","N"," ","B","Y"," ","a",")">>, <<>>),
   Expr(<<"c">>, <<>>)}

\* subqueries: none, one whose second column renames an aggregate, one with
\* more column aliases than selects, and two that name the same column
SubqueryPool ==
  {<<  >>,
   << [alias_column_names |-> << <<"k">>, <<"c">> >>, selects |-> << <<"k">>, <<"C","O","U","N","T","(","o",")">> >>] >>,
   << [alias_column_names |-> << <<"a">>, <<"r">> >>, selects |-> << <<"X">> >>] >>,
   << [alias_column_names |-> << <<"c">> >>, selects |-> << <<"c">> >>], [alias_column_names |-> << <<"c">>, <<"G">> >>, selects |-> << <<"b">>, <<"d">> >>] >>}

ParsedQueries ==
  {[expressions |-> e, subqueries |-> s] :
     e \in UNION {[1..n -> ExprPool] : n \in 0..MaxExprs}, s \in SubqueryPool}

InitAlias ==
  /\ pc = "retrieve_alias"
  /\ query = SelectStarQuery
  /\ plan = NoPlan
  /\ parsed_query \in ParsedQueries
  /\ alias = << >>
  /\ plan_queue = << >>
  /\ query_list = << >>
  /\ order = << >>
  /\ output = << >>
  /\ error = ""
  /\ flat = << >>
  /\ before = << >>
  /\ once = << >>
  /\ variable_string = << >>
  /\ temp_values = << >>
  /\ origin = << >>
  /\ message = ""
  /\ elements = << >>
  /\ visited = << >>
  /\ db = NoCall

NextAlias == RetrieveAlias

SpecAlias == InitAlias /\ [][NextAlias]_vars

(***************************************************************************)
(* C17                                                                     *)
(***************************************************************************)
\* the text holds "over", then any whitespace, then an opening parenthesis
OverWindow(s) ==
  \E p \in 1..Len(s) : \E q \in (p + 4)..Len(s) :
    /\ SubSeq(s, p, p + 3) = <<"o","v","e","r">>
    /\ \A r \in (p + 4)..(q - 1) : s[r] \in Whitespace
    /\ s[q] = "("

\* the key and the value the resolver owes one selected expression
TopKey(e) ==
  IF e.alias # << >> THEN Lower(e.alias) ELSE Lower(FirstToken(e.text))

TopValue(e) ==
  IF OverWindow(Lower(e.text)) THEN Lower(e.text) ELSE Lower(FirstToken(e.text))

TopPairs(parsed) ==
  [n \in 1..Len(parsed.expressions) |->
     <<TopKey(parsed.expressions[n]), TopValue(parsed.expressions[n])>>]

RECURSIVE SubPairs(_)
\* the column aliases of every subquery zipped with its lower-cased selects
SubPairs(subqueries) ==
  IF subqueries = << >> THEN << >>
  ELSE LET sub == subqueries[1]
           n   == IF Len(sub.alias_column_names) < Len(sub.selects)
                  THEN Len(sub.alias_column_names) ELSE Len(sub.selects)
       IN  [i \in 1..n |-> <<sub.alias_column_names[i], Lower(sub.selects[i])>>]
             \o SubPairs(Tail(subqueries))

RECURSIVE FirstOccurrences(_, _)
\* the keys of the pairs in the order in which each first appears
FirstOccurrences(pairs, seen) ==
  IF pairs = << >> THEN << >>
  ELSE IF pairs[1][1] \in seen THEN FirstOccurrences(Tail(pairs), seen)
  ELSE <<pairs[1][1]>> \o FirstOccurrences(Tail(pairs), seen \cup {pairs[1][1]})

\* the value of the last pair with the key
LastValue(pairs, k) ==
  LET at == {i \in 1..Len(pairs) : pairs[i][1] = k}
  IN  pairs[CHOOSE i \in at : \A j \in at : j <= i][2]

\* C17: once the aliases are resolved, the alias map holds one entry for each
\* key of a top-level selected expression (its declared alias lower-cased,
\* else its first token lower-cased) and of a subquery pair, in the order in
\* which the keys first appear, top-level expressions first; the value is the
\* one of the subquery pair when there is one, and otherwise the full
\* lower-cased expression if that holds an OVER( construct and its first token
\* lower-cased if not.
AliasesResolved ==
  pc = "get_qep" =>
    LET top  == TopPairs(parsed_query)
        sub  == SubPairs(parsed_query.subqueries)
        keys == FirstOccurrences(top \o sub, {})
    IN  /\ Len(alias) = Len(keys)
        /\ \A n \in 1..Len(keys) :
             /\ alias[n][1] = keys[n]
             /\ alias[n][2] = IF \E i \in 1..Len(sub) : sub[i][1] = keys[n]
                              THEN LastValue(sub, keys[n])
                              ELSE LastValue(top, keys[n])

\* a subquery pair replaced the value of the first top-level entry, which
\* stays ahead of a window expression kept in full
AliasesResolvedReached ==
  /\ pc = "get_qep"
  /\ Len(alias) >= 2
  /\ \E i \in 1..Len(SubPairs(parsed_query.subqueries)) :
       /\ SubPairs(parsed_query.subqueries)[i][1] = TopKey(parsed_query.expressions[1])
       /\ SubPairs(parsed_query.subqueries)[i][2] # TopValue(parsed_query.expressions[1])
  /\ alias[1][1] = TopKey(parsed_query.expressions[1])
  /\ alias[1][2] # TopValue(parsed_query.expressions[1])
  /\ OverWindow(Lower(parsed_query.expressions[2].text))
  /\ alias[2][2] = Lower(parsed_query.expressions[2].text)

(***************************************************************************)
(* The cast stripper alone, on every Filter text of up to MaxCastLen       *)
(* characters and on three filters as PostgreSQL prints them               *)
(***************************************************************************)
MaxCastLen == 4      \* longest Filter text tried on the cast stripper

CastAlphabet == {"a", ":", "(", ")", " "}

CastExamples ==
  {<<"(","a"," ",">"," ","'","1","0","0","'",":",":","n","u","m","e","r","i","c",")">>,
   <<"(","b"," ","="," ","'","x","'",":",":","t","e","x","t",")"," ","A","N","D"," ","(","a"," ",">"," ","1",")">>,
   <<"(","a",")",":",":","d","a","t","e"," ","="," ","b">>}

CastTexts(n) == [1..n -> CastAlphabet]

InitCasts ==
  /\ pc = "filter"
  /\ query = SelectStarQuery
  /\ plan = NoPlan
  /\ parsed_query = NoParse
  /\ alias = << >>
  /\ plan_queue = << >>
  /\ query_list = << >>
  /\ order = << >>
  /\ output = << >>
  /\ error = ""
  /\ flat = << >>
  /\ before = << >>
  /\ once = << >>
  /\ \/ variable_string \in CastExamples
     \/ \E n \in 0..MaxCastLen : variable_string \in CastTexts(n)
  /\ temp_values = << >>
  /\ origin = << >>
  /\ message = ""
  /\ elements = << >>
  /\ visited = << >>
  /\ db = NoCall

\* preprocessing.py line 319
ConvertOperation ==
  /\ pc = "filter"
  /\ temp_values' = convert_operation_and_clean_variables(variable_string)
  /\ pc' = "converted"
  /\ UNCHANGED <<query, plan, parsed_query, alias, plan_queue, query_list, order,
                 output, error, flat, before, once, variable_string, origin,
                 message, db, elements, visited>>

NextCasts == ConvertOperation

SpecCasts == InitCasts /\ [][NextCasts]_vars

(***************************************************************************)
(* C18                                                                     *)
(***************************************************************************)
\* position of the first ')' or whitespace at or after p, 0 when there is none
CastDelimiter(s, p) ==
  LET at == {i \in p..Len(s) : s[i] = ")" \/ s[i] \in Whitespace}
  IN  IF at = {} THEN 0 ELSE CHOOSE i \in at : \A j \in at : i <= j

RECURSIVE CastsDeleted(_, _)
\* the text from p on without its casts: a "::" and the type name up to the
\* next ')' or whitespace go, the delimiter and all else stay
CastsDeleted(s, p) ==
  IF p > Len(s) THEN << >>
  ELSE IF p < Len(s) /\ s[p] = ":" /\ s[p + 1] = ":" /\ CastDelimiter(s, p + 2) # 0
  THEN CastsDeleted(s, CastDelimiter(s, p + 2))
  ELSE <<s[p]>> \o CastsDeleted(s, p + 1)

RECURSIVE Nesting(_, _, _)
\* the nesting depth after the first n characters, -1 once a ')' had no '('
Nesting(s, n, d) ==
  IF d < 0 \/ n = 0 THEN d
  ELSE LET before_n == Nesting(s, n - 1, d)
       IN  IF before_n < 0 THEN before_n
           ELSE IF s[n] = "(" THEN before_n + 1
           ELSE IF s[n] = ")" THEN before_n - 1
           ELSE before_n

Balanced(s) == Nesting(s, Len(s), 0) = 0

\* C18: the converted Filter is the Filter without its casts, each "::typename"
\* that is followed by ')' or whitespace deleted and every other character,
\* the delimiter included, kept; a balanced Filter stays balanced.
CastsStrippedOnly ==
  pc = "converted" =>
    /\ temp_values = CastsDeleted(variable_string, 1)
    /\ Balanced(variable_string) => Balanced(temp_values)

\* C18, the example of the claim: "(a > '100'::numeric)" converted
CastExampleLosesParenthesis ==
  /\ pc = "converted"
  /\ variable_string = <<"(","a"," ",">"," ","'","1","0","0","'",":",":","n","u","m","e","r","i","c",")">>
  /\ temp_values = <<"(","a"," ",">"," ","'","1","0","0","'">>

(***************************************************************************)
(* C19                                                                     *)
(***************************************************************************)
\* a query that fails validation never leaves validate_query but to fail:
\* no alias is resolved, no plan asked for, nothing flattened, and the call
\* that failed stays failed
ParseFailureEndsCall ==
  /\ [](~query.valid =>
          /\ pc \in {"validate_query", "failed"}
          /\ plan_queue = << >> /\ query_list = << >> /\ flat = << >>
          /\ db = NoCall)
  /\ []((~query.valid /\ pc = "failed") => error = "ParseError")
  /\ [][(~query.valid /\ pc = "failed") => pc' = "failed"]_vars

\* C19: a query that fails validation ends the transform with a ParseError that
\* carries the message of the parser, before any plan is asked of the database
\* or flattened, and nothing is tried again.
ParseFailureKeepsMessage ==
  /\ ParseFailureEndsCall
  /\ []((~query.valid /\ pc = "failed") => message = query.message)

\* C19: the transform failed on an unparseable query with the fixed text
ParseFailureFixedMessage ==
  /\ ~query.valid
  /\ pc = "failed"
  /\ error = "ParseError"
  /\ message = error_output
  /\ message # query.message

(***************************************************************************)
(* DBConnection.execute alone, for every times of up to MaxTimes and every *)
(* sequence of outcomes of its attempts                                    *)
(***************************************************************************)
MaxTimes == 3        \* most attempts given to execute

\* what cur.execute / cur.fetchall can do: give rows, or raise one of the
\* three errors execute handles, or raise another error
Outcomes ==
  {"rows", "QueryCanceledError", "UndefinedTable", "UndefinedColumn", "SyntaxError"}

InitExecute ==
  /\ pc = "execute"
  /\ query = SelectStarQuery
  /\ plan = NoPlan
  /\ parsed_query = NoParse
  /\ alias = << >>
  /\ plan_queue = << >>
  /\ query_list = << >>
  /\ order = << >>
  /\ output = << >>
  /\ error = ""
  /\ flat = << >>
  /\ before = << >>
  /\ once = << >>
  /\ variable_string = << >>
  /\ temp_values = << >>
  /\ origin = << >>
  /\ message = ""
  /\ elements = << >>
  /\ visited = << >>
  /\ \E n \in 0..MaxTimes : \E outcomes \in [1..n -> Outcomes] :
       db = [NoCall EXCEPT !.n = n, !.times = n, !.outcomes = outcomes]

\* lines 69-85: one turn of the loop
ExecuteAttempt ==
  /\ pc = "execute"
  /\ db.times > 0
  /\ LET outcome == db.outcomes[db.attempts + 1]
     IN  CASE outcome = "rows" ->
                /\ db' = [db EXCEPT !.attempts = @ + 1, !.rows = db.attempts + 1]
                /\ pc' = "returned"
                /\ error' = error
           [] outcome = "QueryCanceledError" ->
                /\ db' = [db EXCEPT !.attempts = @ + 1,
                                    !.error = "QueryCanceledError",
                                    !.rollbacks = @ + 1,
                                    !.times = @ - 1]
                /\ pc' = pc
                /\ error' = error
           [] outcome \in {"UndefinedTable", "UndefinedColumn"} ->
                /\ db' = [db EXCEPT !.attempts = @ + 1,
                                    !.error = "TokenError",
                                    !.rollbacks = @ + 1,
                                    !.times = @ - 1]
                /\ pc' = pc
                /\ error' = error
           [] OTHER ->
                /\ db' = [db EXCEPT !.attempts = @ + 1]
                /\ pc' = "raised"
                /\ error' = outcome
  /\ UNCHANGED <<query, plan, parsed_query, alias, plan_queue, query_list, order,
                 output, flat, before, once, variable_string, temp_values, origin,
                 message, elements, visited>>

\* lines 86-87: raise error, a local that is bound by the handlers alone
ExecuteRaise ==
  /\ pc = "execute"
  /\ db.times <= 0
  /\ pc' = "raised"
  /\ error' = IF db.error = "unbound" THEN "UnboundLocalError" ELSE db.error
  /\ UNCHANGED <<query, plan, parsed_query, alias, plan_queue, query_list, order,
                 output, flat, before, once, variable_string, temp_values, origin,
                 message, db, elements, visited>>

NextExecute == ExecuteAttempt \/ ExecuteRaise

\* the loop is one thread of control: a turn that can be taken is taken
SpecExecute == InitExecute /\ [][NextExecute]_vars /\ WF_vars(NextExecute)

(***************************************************************************)
(* C20                                                                     *)
(***************************************************************************)
Handled == {"QueryCanceledError", "UndefinedTable", "UndefinedColumn"}

\* the error that tells of a failed attempt
ErrorOf(outcome) ==
  IF outcome \in {"UndefinedTable", "UndefinedColumn"} THEN "TokenError" ELSE outcome

\* the call ends within n attempts; rows are returned from the first attempt
\* that gives some and nothing is attempted after; each handled failure is
\* rolled back before the next turn
ExecuteRetries ==
  /\ <>(pc \in {"returned", "raised"})
  /\ [](db.attempts <= db.n)
  /\ [](pc = "returned" =>
          /\ db.rows = db.attempts
          /\ db.outcomes[db.rows] = "rows"
          /\ \A i \in 1..(db.rows - 1) : db.outcomes[i] \in Handled)
  /\ [][(pc \in {"returned", "raised"}) => UNCHANGED db]_vars
  /\ [](db.rollbacks =
          Cardinality({i \in 1..db.attempts : db.outcomes[i] \in Handled}))

\* C20: execute(query, times = n) ends within n attempts, returns the rows of
\* the first attempt that succeeds and attempts nothing after it, rolls back
\* after every attempt that ends in a timeout or an undefined table or column,
\* and, when no attempt succeeds, raises a defined error that tells of the last
\* failure, for n = 0 as well.
ExecuteBounded ==
  /\ ExecuteRetries
  /\ [](pc = "raised" =>
          /\ error \in {"QueryCanceledError", "TokenError", "SyntaxError"}
          /\ db.attempts > 0 => error = ErrorOf(db.outcomes[db.attempts]))

\* C20: execute was given no attempt and left through an unbound local
ExecuteRaisesUnbound ==
  /\ pc = "raised"
  /\ db.n = 0
  /\ db.attempts = 0
  /\ error = "UnboundLocalError"

(***************************************************************************)
(* interface.py qep_to_graph_elements                                      *)
(***************************************************************************)
\* line 137: the steps that are no WHERE
GraphSteps(unfiltered_qep_list) ==
  SelectSeq(unfiltered_qep_list, LAMBDA step : step.kind # "WHERE")

\* line 141: f"{node_counter}_{query_type.name}", kept as the pair
NodeId(qep_list, idx) == <<idx - 1, qep_list[idx].kind>>

\* lines 143-151: str(v), broken into lines at the logical operators when it
\* is longer than 40 characters
Fmt(v) ==
  LET s == Format(v)
  IN  IF Len(s) > 40
      THEN Replace(Replace(Replace(Replace(s,
             <<" ","A","N","D"," ">>, <<"\n","A","N","D"," ">>),
             <<" ","O","R"," ">>, <<"\n","O","R"," ">>),
             <<" ","T","H","E","N"," ">>, <<"\n","T","H","E","N"," ">>),
             <<" ","E","L","S","E"," ">>, <<"\n","E","L","S","E"," ">>)
      ELSE s

\* lines 153-154: the name of the kind and one line per field
Label(step) ==
  [name  |-> step.kind,
   lines |-> [j \in 1..Len(step.vars) |-> <<step.vars[j][1], Fmt(step.vars[j][2])>>]]

RECURSIVE Ascending(_)
\* the numbers of a set as a sequence, smallest first
Ascending(set) ==
  IF set = {} THEN << >>
  ELSE LET least == CHOOSE i \in set : \A j \in set : i <= j
       IN  <<least>> \o Ascending(set \ {least})

\* lines 167-168 and 190-191: the first two FROM steps after idx
FromIndices(qep_list, idx) ==
  LET all == Ascending({i \in (idx + 1)..Len(qep_list) : qep_list[i].kind = "FROM"})
  IN  SubSeq(all, 1, Min(2, Len(all)))

\* lines 171-183: a step is moved left or right by every JOIN that has it as
\* one of exactly two children; the last such JOIN decides
PositionX(qep_list, i) ==
  LET joins == {j \in 1..Len(qep_list) :
                  /\ qep_list[j].kind = "JOIN"
                  /\ Len(FromIndices(qep_list, j)) = 2
                  /\ \E k \in 1..2 : FromIndices(qep_list, j)[k] = i}
  IN  IF joins = {} THEN 0
      ELSE LET last == CHOOSE j \in joins : \A k \in joins : k <= j
           IN  IF FromIndices(qep_list, last)[1] = i THEN -300 ELSE 300

\* lines 156-159
NodeElement(qep_list, i) ==
  [id    |-> NodeId(qep_list, i),
   label |-> Label(qep_list[i]),
   x     |-> PositionX(qep_list, i),
   y     |-> (i - 1) * 220]

EdgeElement(qep_list, source, target) ==
  [source |-> NodeId(qep_list, source), target |-> NodeId(qep_list, target)]

RECURSIVE EdgesFrom(_, _, _)
\* lines 185-209: the edges added from step idx on, after those in edges
EdgesFrom(qep_list, idx, edges) ==
  IF idx > Len(qep_list) THEN edges
  ELSE IF qep_list[idx].kind = "JOIN"
  THEN LET from_indices == FromIndices(qep_list, idx)
       IN  EdgesFrom(qep_list, idx + 1,
                     edges \o [k \in 1..Len(from_indices) |->
                                 EdgeElement(qep_list, idx, from_indices[k])])
  ELSE IF /\ idx < Len(qep_list)
          /\ ~\E e \in 1..Len(edges) : edges[e].target = NodeId(qep_list, idx + 1)
  THEN EdgesFrom(qep_list, idx + 1, Append(edges, EdgeElement(qep_list, idx, idx + 1)))
  ELSE EdgesFrom(qep_list, idx + 1, edges)

qep_to_graph_elements(unfiltered_qep_list) ==
  LET qep_list == GraphSteps(unfiltered_qep_list)
  IN  [i \in 1..Len(qep_list) |-> NodeElement(qep_list, i)]
        \o EdgesFrom(qep_list, 1, << >>)

(***************************************************************************)
(* The whole transform with its graph, on the plans of joins, scans and    *)
(* sorts                                                                   *)
(***************************************************************************)
\* interface.py line 234
QepToGraphElements ==
  /\ pc = "done"
  /\ elements' = qep_to_graph_elements(query_list)
  /\ pc' = "graphed"
  /\ UNCHANGED <<query, plan, parsed_query, alias, plan_queue, query_list, order,
                 output, error, flat, before, once, variable_string, temp_values,
                 origin, message, db, visited>>

NextGraph == Next \/ QepToGraphElements

SpecGraph == InitJoins /\ [][NextGraph]_vars

(***************************************************************************)
(* C21                                                                     *)
(***************************************************************************)
GraphNodes == SelectSeq(elements, LAMBDA e : "id" \in DOMAIN e)

GraphEdges == SelectSeq(elements, LAMBDA e : "target" \in DOMAIN e)

HasEdge(source, target) ==
  \E e \in 1..Len(GraphEdges) :
    GraphEdges[e].source = source /\ GraphEdges[e].target = target

HasIncoming(target) ==
  \E e \in 1..Len(GraphEdges) : GraphEdges[e].target = target

\* C21: the graph of the final sequence has one node per stage, in order; each
\* Join node has an edge to each of its From nodes, the nearest two that
\* follow it; every other node has an edge to the next node unless that node
\* is the target of another edge; and every node but the first has an
\* incoming edge.
GraphFollowsSequence ==
  pc = "graphed" =>
    /\ Len(GraphNodes) = Len(query_list)
    /\ \A i \in 1..Len(GraphNodes) :
         /\ i <= Len(query_list) => GraphNodes[i].id = <<i - 1, query_list[i].kind>>
         /\ GraphNodes[i].id[2] = "JOIN" =>
              \A j \in (i + 1)..Len(GraphNodes) :
                (/\ GraphNodes[j].id[2] = "FROM"
                 /\ Cardinality({k \in (i + 1)..j : GraphNodes[k].id[2] = "FROM"}) <= 2)
                  => HasEdge(GraphNodes[i].id, GraphNodes[j].id)
         /\ (GraphNodes[i].id[2] # "JOIN" /\ i < Len(GraphNodes)) =>
              HasIncoming(GraphNodes[i + 1].id)
         /\ i > 1 => HasIncoming(GraphNodes[i].id)

\* C21: a join of two sorted scans was drawn with the first Sort node cut
\* off: the Join points at the two From nodes and nothing points at the Sort
\* that follows it, while every stage has its node
GraphOrphanNode ==
  /\ pc = "graphed"
  /\ Len(GraphNodes) = Len(query_list)
  /\ \E i \in 1..(Len(GraphNodes) - 3) :
       /\ GraphNodes[i].id[2] = "JOIN"
       /\ GraphNodes[i + 1].id[2] = "ORDER"
       /\ GraphNodes[i + 2].id[2] = "ORDER"
       /\ ~HasIncoming(GraphNodes[i + 1].id)
       /\ HasEdge(GraphNodes[i].id, GraphNodes[i + 3].id)

\* C21: a sequence with a Where stage was drawn without a node for it
GraphDropsWhere ==
  /\ pc = "graphed"
  /\ \E i \in 1..Len(query_list) : query_list[i].kind = "WHERE"
  /\ Len(GraphNodes) < Len(query_list)

(***************************************************************************)
(* C22                                                                     *)
(***************************************************************************)
\* the sequence the SELECT synthesis made of the normalized one
AfterSelect == inject_queries(parsed_query, once, alias)

\* the passes in the order SELECT, WHERE, SET
WhereThenSet == inject_where_condition(AfterSelect)

SpecifiedOrder == inject_set_statement(query.text, WhereThenSet, alias)

Injected ==
  pc \in {"parse_query", "done"} \/ (pc = "failed" /\ error = "KeyError")

\* C22: the sequence the passes leave when run as the code runs them, SELECT,
\* then SET, then WHERE, is the sequence they leave when run in the order
\* SELECT, WHERE, SET; and the one order fails for want of a SET clause
\* exactly when the other does.
PassOrderEquivalent ==
  /\ Injected =>
       /\ ~SetRaises(query.text, WhereThenSet)
       /\ query_list = SpecifiedOrder
  /\ (pc = "failed" /\ error = "AttributeError") =>
       SetRaises(query.text, WhereThenSet)

\* both passes had work to do: the final sequence holds a Set stage and a
\* Where stage, and the Select stage in front of the Update stage is gone
PassOrderEquivalentReached ==
  /\ pc = "parse_query"
  /\ \E i \in 1..Len(query_list) : query_list[i].kind = "SET"
  /\ \E i \in 1..Len(query_list) : query_list[i].kind = "WHERE"
  /\ Len(query_list) = Len(AfterSelect) + 1
  /\ AfterSelect[1].kind = "SELECT"
  /\ query_list[1].kind = "SET"

(***************************************************************************)
(* The flattener run to its end on every plan of up to MaxNodes nodes      *)
(***************************************************************************)
\* the while loop of __unwrap_QEP takes its next turn whenever it can
SpecSubtree ==
  InitFlatten /\ [][NextFlatten]_vars /\ WF_<<pc, plan_queue>>(UnwrapTurn)

(***************************************************************************)
(* C23                                                                     *)
(***************************************************************************)
\* the node has a label that some kind matches
Classified(n) == FirstTagged(plan.nodes[n].type) # Unclassified

\* the node is an aggregate whose Partial Mode is "Partial"
PartialAggregate(n) ==
  /\ FirstTagged(plan.nodes[n].type) = "AGGREGATE"
  /\ \E f \in 1..Len(plan.nodes[n].fields) :
       /\ plan.nodes[n].fields[f][1] = "Partial Mode"
       /\ plan.nodes[n].fields[f][2] = [str |-> <<"P","a","r","t","i","a","l">>]

Dropped(n) == ~Classified(n) \/ PartialAggregate(n)

\* C23: the flattener ends, having taken every node of the plan from its
\* queue exactly once; every node that is classified and no Partial aggregate
\* has given one stage, the children of dropped nodes included; so the
\* sequence is as long as the classified nodes are many, less the Partial
\* aggregates.
SubtreeKept ==
  /\ <>(pc = "clean_and_replace_variables")
  /\ [](\A i, j \in 1..Len(visited) : visited[i] = visited[j] => i = j)
  /\ [](pc = "clean_and_replace_variables" =>
          /\ {visited[i] : i \in 1..Len(visited)} = 1..Len(plan.nodes)
          /\ \A n \in 1..Len(plan.nodes) :
               Cardinality({i \in 1..Len(origin) : origin[i] = n})
                 = IF Dropped(n) THEN 0 ELSE 1
          /\ Len(flat) = Cardinality({n \in 1..Len(plan.nodes) : Classified(n)})
                           - Cardinality({n \in 1..Len(plan.nodes) : PartialAggregate(n)}))

\* a plan was flattened in which an unclassified node and a Partial aggregate
\* each have a child, and both children gave their stage
SubtreeKeptReached ==
  /\ pc = "clean_and_replace_variables"
  /\ \E n, m \in 2..Len(plan.nodes) :
       /\ ~Classified(plan.parent[n])
       /\ PartialAggregate(plan.parent[m])
       /\ \E i \in 1..Len(origin) : origin[i] = n
       /\ \E i \in 1..Len(origin) : origin[i] = m
  /\ Len(flat) < Len(plan.nodes)

====
